---- MODULE Spec2Model ----
(***************************************************************************)
(* A model of the disk-image inspector: the ByteStream window reader, the  *)
(* NTFS timestamp conversion, the GUID formatter, the GPT header CRC, the  *)
(* MFT record parser and the timestomp writer.                             *)
(*                                                                         *)
(* Bytes are naturals 0..255.  The image is a sequence of bytes; the byte  *)
(* at image offset o is disk[o + 1].  64-bit values whose width matters    *)
(* are kept as four 16-bit limbs, least significant first, so that wrap    *)
(* around at 2^64 is computed and not assumed.                             *)
(***************************************************************************)
EXTENDS Integers, Sequences, FiniteSets, TLC

VARIABLES build, dt, guid, gpt, disk, bs, mft, apm, mbr, pbr

vars == <<build, dt, guid, gpt, disk, bs, mft, apm, mbr, pbr>>

\* What each part of the model leaves alone.
frameDt == <<build, guid, gpt, disk, bs, mft, apm, mbr, pbr>>
frameGuid == <<build, dt, gpt, disk, bs, mft, apm, mbr, pbr>>
frameGpt == <<build, dt, guid, disk, bs, mft, apm, mbr, pbr>>
frameBs == <<build, dt, guid, gpt, mft, apm, mbr, pbr>>
frameMft == <<build, dt, guid, gpt, bs, apm, mbr, pbr>>
frameApm == <<build, dt, guid, gpt, disk, bs, mft, mbr, pbr>>
frameMbr == <<build, dt, guid, gpt, disk, bs, mft, apm, pbr>>
framePbr == <<build, dt, guid, gpt, disk, bs, mft, apm, mbr>>

\* A part of the model that is not running.
Off == [pc |-> "off"]

\* The two ways the program is built: with overflow checks (an overflowing
\* operation aborts) or without them (it wraps).
Builds == {"debug", "release"}

Min(a, b) == IF a < b THEN a ELSE b
Max(a, b) == IF a > b THEN a ELSE b

\* ------------------------------------------------------------------------
\* 64-bit arithmetic on limbs
\* ------------------------------------------------------------------------
Limb == 65536

U64Zero == <<0, 0, 0, 0>>

\* The low four limbs of a wider value: the value modulo 2^64.
Low64(w) == <<w[1], w[2], w[3], w[4]>>

\* A wider value fits 64 bits when every limb above the fourth is zero.
Fits64(w) == \A i \in 5..Len(w) : w[i] = 0

RECURSIVE MulLimbs(_, _, _, _)
MulLimbs(x, k, i, carry) ==
  IF i > Len(x) THEN <<carry>>
  ELSE LET p == x[i] * k + carry
       IN <<p % Limb>> \o MulLimbs(x, k, i + 1, p \div Limb)

\* x * k, exact, one limb longer than x (k <= 10000).
MulSmall(x, k) == MulLimbs(x, k, 1, 0)

RECURSIVE AddLimbs(_, _, _, _)
AddLimbs(x, y, i, carry) ==
  IF i > Len(x) THEN <<carry>>
  ELSE LET s == x[i] + (IF i <= Len(y) THEN y[i] ELSE 0) + carry
       IN <<s % Limb>> \o AddLimbs(x, y, i + 1, s \div Limb)

\* x + y, exact, one limb longer than x (Len(y) <= Len(x)).
AddWide(x, y) == AddLimbs(x, y, 1, 0)

RECURSIVE SubLimbs(_, _, _, _)
SubLimbs(x, y, i, borrow) ==
  IF i > Len(x) THEN <<borrow>>
  ELSE LET d == x[i] - y[i] - borrow
       IN <<(d + Limb) % Limb>> \o SubLimbs(x, y, i + 1, IF d < 0 THEN 1 ELSE 0)

\* x - y modulo 2^64 in limbs 1..4, the final borrow in limb 5.
SubWide(x, y) == SubLimbs(x, y, 1, 0)

RECURSIVE DivLimbs(_, _, _, _)
DivLimbs(x, k, i, rem) ==
  IF i = 0 THEN <<>>
  ELSE LET n == rem * Limb + x[i]
       IN DivLimbs(x, k, i - 1, n % k) \o <<n \div k>>

\* floor(x / k) (k <= 10000).
DivSmall(x, k) == DivLimbs(x, k, Len(x), 0)

RECURSIVE LessFrom(_, _, _)
LessFrom(x, y, i) ==
  IF i = 0 THEN FALSE
  ELSE IF x[i] # y[i] THEN x[i] < y[i]
  ELSE LessFrom(x, y, i - 1)

U64Less(x, y) == LessFrom(x, y, 4)
U64Leq(x, y) == x = y \/ U64Less(x, y)

\* A small natural as a 64-bit value.
U64Of(n) == <<n % Limb, n \div Limb, 0, 0>>

\* u64::from_le_bytes / read_u64::<LittleEndian>: eight bytes, least
\* significant first.
U64FromLeBytes(b) ==
  <<b[1] + 256 * b[2], b[3] + 256 * b[4], b[5] + 256 * b[6], b[7] + 256 * b[8]>>

\* u64::to_le_bytes / write_uint::<LittleEndian>(_, 8).
U64ToLeBytes(x) ==
  <<x[1] % 256, x[1] \div 256, x[2] % 256, x[2] \div 256,
    x[3] % 256, x[3] \div 256, x[4] % 256, x[4] \div 256>>

\* ------------------------------------------------------------------------
\* NtfsDatetime: unix seconds <-> OLE2 / FILETIME
\* ------------------------------------------------------------------------

\* 116444736000000000 = 0x019DB1DED53E8000 (in limbs): the 100-ns intervals
\* from 1601-01-01 to 1970-01-01.
EpochDiff == <<32768, 54590, 45534, 413>>

\* impl From<u64> for NtfsDatetime: the moment unix_epoch seconds after
\* 1970-01-01 (whole seconds, so the seconds are kept and nothing else).
NtfsDatetimeFrom(unix_epoch) == [secs |-> unix_epoch, nanos |-> 0]

\* DateTime::timestamp() as u64.
Timestamp(datetime) == datetime.secs

\* The outcome of an unsigned operation whose exact result is `wide`:
\* with overflow checks an out-of-range result aborts, without them the
\* low 64 bits are kept.
Checked(b, inRange, value) ==
  IF inRange THEN [fault |-> "none", value |-> value]
  ELSE IF b = "debug" THEN [fault |-> "panic", value |-> U64Zero]
  ELSE [fault |-> "wrap", value |-> value]

\* The mutant of Ole2: the epoch difference is not added.
Ole2NoEpoch(datetime, b) ==
  LET prod == MulSmall(MulSmall(Timestamp(datetime), 10000), 1000)
  IN Checked(b, Fits64(prod), Low64(prod))

\* NtfsDatetime::ole2: (timestamp as u64 * 10000000) + 116444736000000000.
\* The product is taken in two exact steps (10000 * 1000).
Ole2(datetime, b) ==
  LET prod == MulSmall(MulSmall(Timestamp(datetime), 10000), 1000)
      sum == AddWide(Low64(prod), EpochDiff)
  IN Checked(b, Fits64(prod) /\ Fits64(sum), Low64(sum))

\* The mutant of ReadNtfsDatetime: the divisor is 1000000 (a digit short).
ReadNtfsDatetimeShortDivisor(bytes, b) ==
  LET ole2_timestamp == U64FromLeBytes(bytes)
      diff == SubWide(ole2_timestamp, EpochDiff)
      r == Checked(b, diff[5] = 0, Low64(diff))
  IN [fault |-> r.fault,
      ole2 |-> ole2_timestamp,
      datetime |-> NtfsDatetimeFrom(DivSmall(DivSmall(r.value, 1000), 1000))]

\* impl Readable for NtfsDatetime: read_le::<u64>, then
\* (ole2_timestamp - 116444736000000000) / 10000000 in u64.
ReadNtfsDatetime(bytes, b) ==
  LET ole2_timestamp == U64FromLeBytes(bytes)
      diff == SubWide(ole2_timestamp, EpochDiff)
      r == Checked(b, diff[5] = 0, Low64(diff))
  IN [fault |-> r.fault,
      ole2 |-> ole2_timestamp,
      datetime |-> NtfsDatetimeFrom(DivSmall(DivSmall(r.value, 10000), 1000))]

\* The largest number of timestamp samples on each side.
MaxTimeSample == 20

\* 10^11 seconds and 10^16 intervals (in limbs): the spacing of the samples.
TStep == <<59392, 18550, 23, 0>>
FtStep == <<0, 28609, 34546, 35>>

\* 1833029933770 = 0x01AAC9191ACA (in limbs): the largest t with
\* t * 10^7 + EpochDiff < 2^64.
MaxEncodable == <<6858, 51481, 426, 0>>

\* The bytes 00 48 BC F4 E0 1D D9 01 of test_stomp.
StompBytes == <<0, 72, 188, 244, 224, 29, 217, 1>>

TSamples ==
  \* 0, 1, 1672578000, 1691641200, the largest encodable one and the next
  {U64Of(0), U64Of(1), <<33744, 25521, 0, 0>>,
   <<25968, 25812, 0, 0>>, MaxEncodable,
   Low64(AddWide(MaxEncodable, U64Of(1)))}
  \cup {Low64(MulSmall(TStep, k)) : k \in 0..MaxTimeSample}

FtSamples ==
  {[i \in 1..8 |-> 0], StompBytes, U64ToLeBytes(EpochDiff),
   U64ToLeBytes(Low64(SubWide(EpochDiff, U64Of(1)))), [i \in 1..8 |-> 255]}
  \cup {U64ToLeBytes(Low64(MulSmall(FtStep, k))) : k \in 0..MaxTimeSample}

\* Either a unix timestamp to be encoded (the timestomp argument), or eight
\* stored bytes to be decoded (a timestamp of an attribute body).
InitDatetime ==
  /\ build \in Builds
  /\ \/ \E t \in TSamples : dt = [pc |-> "unix", origin |-> "unix", t |-> t]
     \/ \E b \in FtSamples : dt = [pc |-> "stored", origin |-> "disk", bytes |-> b]
  /\ guid = Off /\ gpt = Off /\ disk = <<>> /\ bs = Off /\ mft = Off /\ apm = Off /\ mbr = Off /\ pbr = Off

\* NtfsDatetime::from(t).ole2() and its little-endian bytes.
DtEncode ==
  /\ dt.pc = "unix"
  /\ LET e == Ole2(NtfsDatetimeFrom(dt.t), build)
     IN dt' = IF e.fault = "panic"
              THEN [pc |-> "panic", origin |-> "unix", t |-> dt.t, enc |-> e]
              ELSE [pc |-> "stored", origin |-> "unix", t |-> dt.t, enc |-> e,
                    bytes |-> U64ToLeBytes(e.value)]
  /\ UNCHANGED frameDt

\* reader.read::<NtfsDatetime>() of the stored bytes.
DtDecode ==
  /\ dt.pc = "stored"
  /\ LET d == ReadNtfsDatetime(dt.bytes, build)
     IN dt' = [dt EXCEPT !.pc = IF d.fault = "panic" THEN "panic" ELSE "decoded"]
              @@ [dec |-> d]
  /\ UNCHANGED frameDt

NextDatetime == DtEncode \/ DtDecode

\* ------------------------------------------------------------------------
\* Guid: the mixed-endian 16-byte identifier and its string form
\* ------------------------------------------------------------------------
HexLower == <<"0", "1", "2", "3", "4", "5", "6", "7",
              "8", "9", "a", "b", "c", "d", "e", "f">>

\* char::to_uppercase on the characters format! can produce here.
ToUppercase(c) ==
  CASE c = "a" -> "A" [] c = "b" -> "B" [] c = "c" -> "C"
    [] c = "d" -> "D" [] c = "e" -> "E" [] c = "f" -> "F"
    [] OTHER -> c

\* The four lower-case hex digits of one 16-bit limb, most significant first.
LimbHex(l) ==
  <<HexLower[(l \div 4096) + 1], HexLower[((l \div 256) % 16) + 1],
    HexLower[((l \div 16) % 16) + 1], HexLower[(l % 16) + 1]>>

RECURSIVE AllHex(_, _)
AllHex(x, i) == IF i = 0 THEN <<>> ELSE LimbHex(x[i]) \o AllHex(x, i - 1)

RECURSIVE StripZeros(_)
StripZeros(ds) ==
  IF Len(ds) > 1 /\ ds[1] = "0" THEN StripZeros(Tail(ds)) ELSE ds

\* format!("{:0width$x}", x): the digits of x without leading zeros, then
\* padded on the left with zeros up to the width (never truncated).
FormatHex(x, width) ==
  LET ds == StripZeros(AllHex(x, Len(x)))
  IN [i \in 1..(Max(width, Len(ds)) - Len(ds)) |-> "0"] \o ds

\* The mutant of GuidNew: time_low is read big-endian.
GuidNewBigEndianLow(bytes) ==
  [time_low |-> <<bytes[4] + 256 * bytes[3], bytes[2] + 256 * bytes[1]>>,
   time_mid |-> <<bytes[5] + 256 * bytes[6]>>,
   time_high_and_version |-> <<bytes[7] + 256 * bytes[8]>>,
   clock_seq_high_and_reserved |-> bytes[9],
   clock_seq_low |-> bytes[10],
   node_identifier |-> [i \in 1..6 |-> bytes[10 + i]]]

\* Guid::new.  bytes[k + 1] is the source's bytes[k]; the integer fields
\* are limbs, least significant first.
GuidNew(bytes) ==
  [time_low |-> <<bytes[1] + 256 * bytes[2], bytes[3] + 256 * bytes[4]>>,
   time_mid |-> <<bytes[5] + 256 * bytes[6]>>,
   time_high_and_version |-> <<bytes[7] + 256 * bytes[8]>>,
   clock_seq_high_and_reserved |-> bytes[9],
   clock_seq_low |-> bytes[10],
   node_identifier |-> [i \in 1..6 |-> bytes[10 + i]]]

\* impl ToString for Guid.
GuidToString(g) ==
  LET clock_seq == <<256 * g.clock_seq_high_and_reserved + g.clock_seq_low>>
      tmp_buffer == <<0, 0>> \o g.node_identifier
      \* u64::from_be_bytes(tmp_buffer)
      node == [i \in 1..4 |-> 256 * tmp_buffer[9 - 2 * i] + tmp_buffer[10 - 2 * i]]
      text == FormatHex(g.time_low, 8) \o <<"-">>
                \o FormatHex(g.time_mid, 4) \o <<"-">>
                \o FormatHex(g.time_high_and_version, 4) \o <<"-">>
                \o FormatHex(clock_seq, 4) \o <<"-">>
                \o FormatHex(node, 12)
  IN [i \in 1..Len(text) |-> ToUppercase(text[i])]

\* The bytes of test_guid (the EFI System partition type).
TestGuidBytes ==
  <<40, 115, 42, 193, 31, 248, 210, 17, 186, 75, 0, 160, 201, 62, 201, 59>>

\* Byte values 0..MaxGuidByte are tried at every position, besides 0xAB, 0xF0
\* and 0xFF.
MaxGuidByte == 1

GuidByteSamples == (0..MaxGuidByte) \cup {171, 240, 255}

GuidInputs ==
  {TestGuidBytes, [i \in 1..16 |-> 0]}
  \cup {[TestGuidBytes EXCEPT ![p] = v] : p \in 1..16, v \in GuidByteSamples}

\* Two identifiers of the image (a partition's type and its unique GUID).
InitGuid ==
  /\ build = "release"
  /\ \E a \in GuidInputs, b \in GuidInputs :
       guid = [pc |-> "bytes", a |-> a, b |-> b]
  /\ dt = Off /\ gpt = Off /\ disk = <<>> /\ bs = Off /\ mft = Off /\ apm = Off /\ mbr = Off /\ pbr = Off

\* Guid::new(bytes).to_string() of both.
GuidFormat ==
  /\ guid.pc = "bytes"
  /\ guid' = [guid EXCEPT !.pc = "done"]
               @@ [sa |-> GuidToString(GuidNew(guid.a)),
                   sb |-> GuidToString(GuidNew(guid.b))]
  /\ UNCHANGED frameGuid

NextGuid == GuidFormat

\* ------------------------------------------------------------------------
\* Little-endian fields of the image
\* ------------------------------------------------------------------------
SECTOR_SIZE == 512

\* Offsets and sizes of the model's images stay far below Huge; a stored
\* field that decodes to more than Huge is kept as Huge, which lies beyond
\* the end of every image just as the exact value does.
Huge == 16777216

Sat(n) == Min(n, Huge)

\* bytes[from + 1 .. from + n] of a sequence: the n bytes at offset from.
Slice(bytes, from, n) == SubSeq(bytes, from + 1, from + n)

\* Op applied to the value of v, which is computed once.
With(v, Op(_)) == CHOOSE y \in {Op(x) : x \in {v}} : TRUE

\* from_le_bytes of a field whose value is used as a size or an offset.
LeNat(b) ==
  IF \E i \in 4..Len(b) : b[i] # 0 THEN Huge
  ELSE Sat(b[1] + (IF Len(b) >= 2 THEN 256 * b[2] ELSE 0)
                + (IF Len(b) >= 3 THEN 65536 * b[3] ELSE 0))

\* The width little-endian bytes of a natural below 2^24.
LeBytes(n, width) ==
  [i \in 1..width |-> CASE i = 1 -> n % 256
                        [] i = 2 -> (n \div 256) % 256
                        [] i = 3 -> (n \div 65536) % 256
                        [] OTHER -> 0]

Zeros(n) == [i \in 1..n |-> 0]

\* ------------------------------------------------------------------------
\* GPT header and its CRC32
\* ------------------------------------------------------------------------

\* A u32 is kept as two 16-bit limbs, least significant first.
RECURSIVE Xor(_, _)
Xor(a, b) ==
  IF a = 0 THEN b
  ELSE IF b = 0 THEN a
  ELSE ((a + b) % 2) + 2 * Xor(a \div 2, b \div 2)

\* a ^ b of two 16-bit limbs, four bits at a time: XorTable holds a ^ b of
\* the four-bit values a and b at index 16 * a + b + 1.
XorTable == SubSeq([i \in 1..256 |-> Xor((i - 1) \div 16, (i - 1) % 16)], 1, 256)

Xor16(a, b) ==
  XorTable[16 * (a % 16) + (b % 16) + 1]
    + 16 * XorTable[16 * ((a \div 16) % 16) + ((b \div 16) % 16) + 1]
    + 256 * XorTable[16 * ((a \div 256) % 16) + ((b \div 256) % 16) + 1]
    + 4096 * XorTable[16 * (a \div 4096) + (b \div 4096) + 1]

\* u32::from_le_bytes and u32::to_le_bytes.
U32FromLeBytes(b) == <<b[1] + 256 * b[2], b[3] + 256 * b[4]>>
U32ToLeBytes(x) == <<x[1] % 256, x[1] \div 256, x[2] % 256, x[2] \div 256>>

\* 0xEDB88320 and 0xFFFFFFFF.
CrcPolynomial == <<33568, 60856>>
CrcInitial == <<65535, 65535>>

\* One turn of the inner loop of calculate_crc32: tmp = (byte ^ crc) & 1;
\* crc >>= 1; if tmp != 0 { crc ^= 0xEDB88320 }.
CrcBit(crc, bit) ==
  LET tmp == (bit + crc[1]) % 2
      lo == (crc[1] \div 2) + 32768 * (crc[2] % 2)
      hi == crc[2] \div 2
  IN IF tmp # 0 THEN <<Xor16(lo, CrcPolynomial[1]), Xor16(hi, CrcPolynomial[2])>>
     ELSE <<lo, hi>>

\* The eight turns of the inner loop for one byte.
CrcByte(crc, byte) ==
  LET c1 == CrcBit(crc, byte % 2)
      c2 == CrcBit(c1, (byte \div 2) % 2)
      c3 == CrcBit(c2, (byte \div 4) % 2)
      c4 == CrcBit(c3, (byte \div 8) % 2)
      c5 == CrcBit(c4, (byte \div 16) % 2)
      c6 == CrcBit(c5, (byte \div 32) % 2)
      c7 == CrcBit(c6, (byte \div 64) % 2)
  IN CrcBit(c7, (byte \div 128) % 2)

\* The outer loop over bytes[lo..hi], in order, starting from crc.  The
\* range is split in halves, and crc is evaluated before either half, so
\* that the evaluation stays shallow; the bytes are still folded left to
\* right.
RECURSIVE CrcRange(_, _, _, _)
CrcRange(crc, bytes, lo, hi) ==
  IF crc[1] < 0 \/ lo > hi THEN crc
  ELSE IF lo = hi THEN CrcByte(crc, bytes[lo])
  ELSE LET mid == (lo + hi) \div 2
       IN CrcRange(CrcRange(crc, bytes, lo, mid), bytes, mid + 1, hi)

\* The mutant of CalculateCrc32: the final complement is left out.
CalculateCrc32NoComplement(bytes) == CrcRange(CrcInitial, bytes, 1, Len(bytes))

\* calculate_crc32.
CalculateCrc32(bytes) ==
  LET crc == CrcRange(CrcInitial, bytes, 1, Len(bytes))
  IN <<65535 - crc[1], 65535 - crc[2]>>

\* ByteStream::new(path, Some(0), lba) of the GPT decoder: a stream over
\* the image whose cursor stands at the first byte of sector lba.
GptStreamNew(image, lba) ==
  IF lba * SECTOR_SIZE > Len(image) THEN [ok |-> FALSE]
  ELSE [ok |-> TRUE, buffer |-> image, pos |-> lba * SECTOR_SIZE]

\* read_raw_bytes(amount) of that stream: the next amount bytes, or an
\* error when fewer are left.
ReadRawBytes(stream, amount) ==
  IF stream.pos + amount > Len(stream.buffer) THEN [ok |-> FALSE]
  ELSE [ok |-> TRUE, bytes |-> Slice(stream.buffer, stream.pos, amount)]

\* Vec::splice(16..20, vec![0u8; 4]): aborts when the vector is shorter than
\* 20 bytes.
Splice16To20(bytes) ==
  IF Len(bytes) < 20 THEN [ok |-> FALSE]
  ELSE [ok |-> TRUE, bytes |-> [i \in 1..Len(bytes) |-> IF i \in 17..20 THEN 0 ELSE bytes[i]]]

\* is_valid_header_crc32(path, header_size, crc32).
IsValidHeaderCrc32(image, header_size, crc32) ==
  LET crc == U32FromLeBytes(crc32)
      stream == GptStreamNew(image, 1)
      header_bytes == ReadRawBytes(stream, header_size)
      spliced == Splice16To20(header_bytes.bytes)
  IN IF ~stream.ok \/ ~header_bytes.ok THEN [kind |-> "err"]
     ELSE IF ~spliced.ok THEN [kind |-> "panic"]
     ELSE [kind |-> "ok", value |-> (CalculateCrc32(spliced.bytes) = crc)]

\* The fields of GptHeader that the CRC check reads, from the bytes of LBA 1.
GptHeaderSize(image) == LeNat(Slice(image, SECTOR_SIZE + 12, 4))
GptHeaderCrc32(image) == Slice(image, SECTOR_SIZE + 16, 4)

\* "EFI PART", revision 1.0.
EfiPart == <<69, 70, 73, 32, 80, 65, 82, 84>>
Revision == <<0, 0, 1, 0>>

\* The 92 bytes of a GPT header with the given header_size and crc32 fields,
\* one entry sector at LBA 2; `salt` varies the last usable LBA.
GptHeaderBytes(header_size, crc32, salt) ==
  EfiPart \o Revision \o LeBytes(header_size, 4) \o crc32 \o Zeros(4)
    \o LeBytes(1, 8) \o LeBytes(3 + salt, 8) \o LeBytes(3, 8) \o LeBytes(3 + salt, 8)
    \o TestGuidBytes \o LeBytes(2, 8) \o LeBytes(4, 4) \o LeBytes(128, 4)
    \o Zeros(4)

\* An image of GptSectors sectors: LBA 0, the header at LBA 1, then the
\* sectors of the entry array.
GptSectors == 3

GptImage(header_size, crc32, salt) ==
  LET header == GptHeaderBytes(header_size, crc32, salt)
  IN [i \in 1..(GptSectors * SECTOR_SIZE) |->
        IF i > SECTOR_SIZE /\ i <= SECTOR_SIZE + Len(header)
        THEN header[i - SECTOR_SIZE] ELSE 0]

\* The CRC field that makes the header of an image valid.
ValidCrcFor(header_size, salt) ==
  LET image == GptImage(header_size, Zeros(4), salt)
  IN U32ToLeBytes(CalculateCrc32(Slice(image, SECTOR_SIZE, header_size)))

\* The header sizes tried, the usual 92 among them, and the number of
\* variations of the other header fields.
HeaderSizes == {0, 16, 19, 20, 24, 92, 96}
MaxSalt == 4

\* ------------------------------------------------------------------------
\* GPT entry array: its CRC32 and the enumeration of the entries
\* ------------------------------------------------------------------------

\* The other fields of GptHeader that parse_gpt reads, as they are stored.
GptStartingLba(image) == LeNat(Slice(image, SECTOR_SIZE + 72, 8))
GptNumberEntries(image) == Slice(image, SECTOR_SIZE + 80, 4)
GptSizeEntry(image) == Slice(image, SECTOR_SIZE + 84, 4)
GptEntriesCrc32(image) == Slice(image, SECTOR_SIZE + 88, 4)

\* The exact product of two u32 given by their four bytes each, as eight
\* bytes, least significant first.
Term(a, b, i, k) == IF k + 1 - i \in 1..4 THEN a[i] * b[k + 1 - i] ELSE 0
Col(a, b, k) == Term(a, b, 1, k) + Term(a, b, 2, k) + Term(a, b, 3, k) + Term(a, b, 4, k)

RECURSIVE ProductBytes(_, _, _, _)
ProductBytes(a, b, k, carry) ==
  IF k > 8 THEN <<>>
  ELSE With(Col(a, b, k) + carry, LAMBDA t :
         <<t % 256>> \o ProductBytes(a, b, k + 1, t \div 256))

\* (number_partition_entries * size_single_partition_entry) / SECTOR_SIZE
\* in u32: an overflowing product aborts with overflow checks and keeps its
\* low 32 bits without them.
NumberOfSectors(number, size, b) ==
  With(ProductBytes(number, size, 1, 0), LAMBDA p :
    IF b = "debug" /\ (\E i \in 5..8 : p[i] # 0) THEN [kind |-> "panic"]
    ELSE [kind |-> "ok",
          value |-> (p[2] \div 2) + 128 * p[3] + 32768 * p[4]])

\* ByteStream::read_disk_image(path, start, end): the bytes of the sectors
\* start up to, but not including, end.
ReadDiskImage(image, start, end) ==
  IF end * SECTOR_SIZE > Len(image) THEN [ok |-> FALSE]
  ELSE [ok |-> TRUE,
        bytes |-> Slice(image, start * SECTOR_SIZE, (end - start) * SECTOR_SIZE)]

\* The size of GptPartitionTableEntry: 16 + 16 + 8 + 8 + 8 + 72 bytes.
GptEntrySize == 128

\* The GptPartitionTableEntry stored at byte offset `at` of the image (`at`
\* itself is not a field of the code's entry).
GptEntryAt(image, at) ==
  [at |-> at,
   partition_type_guid |-> Slice(image, at, 16),
   unique_partition_guid |-> Slice(image, at + 16, 16),
   starting_lba |-> Slice(image, at + 32, 8),
   ending_lba |-> Slice(image, at + 40, 8),
   attribute_flags |-> Slice(image, at + 48, 8),
   partition_name |-> Slice(image, at + 56, 72)]

AllZero(bytes) == \A i \in 1..Len(bytes) : bytes[i] = 0

\* GptPartitionTableEntry::is_empty.
GptEntryIsEmpty(entry) ==
  /\ AllZero(entry.partition_type_guid)
  /\ AllZero(entry.unique_partition_guid)
  /\ AllZero(entry.starting_lba)
  /\ AllZero(entry.ending_lba)
  /\ AllZero(entry.attribute_flags)
  /\ AllZero(entry.partition_name)

\* The windows ByteStream::new(path, Some(0), sector_lba) may buffer: the
\* one sector, or the image from that sector on.
Windows == {"sector", "image"}

\* The end, as an offset in the image, of the bytes a stream opened at
\* sector_lba can read.
WindowEnd(image, sector_lba, window) ==
  IF window = "sector" THEN Min((sector_lba + 1) * SECTOR_SIZE, Len(image))
  ELSE Len(image)

\* The loop `while !byte_stream.peek::<GptPartitionTableEntry>()?.is_empty()
\* { read; push }` on a stream opened at sector_lba: the entries read from
\* the cursor on until one is empty, or an error when the stream ends
\* before an empty entry is met.
ReadSectorEntries(image, sector_lba, window) ==
  IF sector_lba * SECTOR_SIZE > Len(image) THEN [ok |-> FALSE]
  ELSE LET from == sector_lba * SECTOR_SIZE
           room == (WindowEnd(image, sector_lba, window) - from) \div GptEntrySize
           NonEmpty(j) == ~GptEntryIsEmpty(GptEntryAt(image, from + j * GptEntrySize))
           stops == {j \in 0..room : j = room \/ ~NonEmpty(j)}
       IN With(CHOOSE j \in stops : \A k \in stops : j <= k, LAMBDA count :
            IF count = room THEN [ok |-> FALSE]
            ELSE [ok |-> TRUE,
                  entries |-> SubSeq([j \in 1..room |->
                                        GptEntryAt(image, from + (j - 1) * GptEntrySize)],
                                     1, count)])

\* The for loop of parse_gpt from index on: a stream per sector of the
\* entry array, whose entries are pushed to partition_table.
RECURSIVE ReadSectors(_, _, _, _, _, _)
ReadSectors(image, start, index, number_of_sectors, window, partition_table) ==
  IF index >= number_of_sectors THEN [kind |-> "ok", entries |-> partition_table]
  ELSE With(ReadSectorEntries(image, start + index, window), LAMBDA r :
         IF ~r.ok THEN [kind |-> "err"]
         ELSE ReadSectors(image, start, index + 1, number_of_sectors, window,
                          partition_table \o r.entries))

\* parse_gpt after the check of the header CRC: the number of sectors, the
\* CRC of the entry array (its outcome is not used) and the enumeration.
\* crc_len and entries_crc are not returned by the code: they are the
\* number of bytes given to calculate_crc32 and the outcome of the
\* comparison with crc32_partition_entries.
ParseGptEntries(image, window, b) ==
  With(NumberOfSectors(GptNumberEntries(image), GptSizeEntry(image), b), LAMBDA n :
    IF n.kind = "panic" THEN [kind |-> "panic"]
    ELSE With(ReadDiskImage(image, GptStartingLba(image), GptStartingLba(image) + n.value),
              LAMBDA buffer :
      IF ~buffer.ok THEN [kind |-> "err"]
      ELSE With(ReadSectors(image, GptStartingLba(image), 0, n.value, window, <<>>),
                LAMBDA r :
        IF r.kind = "err" THEN [kind |-> "err"]
        ELSE [kind |-> "ok", entries |-> r.entries,
              number_of_sectors |-> n.value,
              crc_len |-> Len(buffer.bytes),
              entries_crc |-> (CalculateCrc32(buffer.bytes)
                                 = U32FromLeBytes(GptEntriesCrc32(image)))])))

\* println!("Header guid: {}", header.disk_guid().to_string()); println!().
GptPrinted(image) ==
  <<<<"Header guid: ", GuidToString(GuidNew(Slice(image, SECTOR_SIZE + 56, 16)))>>, <<>>>>

\* parse_gpt: what it prints (the disk GUID and an empty line) and what it
\* returns.  Neither `if` on a CRC has a body.
ParseGpt(image, window, b) ==
  With(IsValidHeaderCrc32(image, GptHeaderSize(image), GptHeaderCrc32(image)), LAMBDA h :
    IF h.kind # "ok" THEN [kind |-> h.kind, printed |-> GptPrinted(image)]
    ELSE With(ParseGptEntries(image, window, b), LAMBDA r :
      IF r.kind # "ok" THEN [kind |-> r.kind, printed |-> GptPrinted(image)]
      ELSE [kind |-> "ok", printed |-> GptPrinted(image), entries |-> r.entries]))

\* A used entry (the EFI System type, a unique GUID and LBAs that tell the
\* entries apart, the name "p") and an unused one.
UsedEntry(k) ==
  TestGuidBytes \o LeBytes(k, 16) \o LeBytes(8 * k, 8) \o LeBytes(8 * k + 7, 8)
    \o Zeros(8) \o <<112, 0>> \o Zeros(70)

EntrySector(lba, fill) ==
  LET Entry(j) == IF fill[j] = 1 THEN UsedEntry(4 * lba + j) ELSE Zeros(GptEntrySize)
  IN Entry(1) \o Entry(2) \o Entry(3) \o Entry(4)

\* The fills of the two sectors after the header: which of the four
\* entries of each sector are used.
SectorFills ==
  { <<<<1, 1, 1, 1>>, <<1, 1, 1, 1>>>>, <<<<1, 1, 1, 1>>, <<1, 1, 0, 0>>>>,
    <<<<1, 0, 1, 0>>, <<0, 0, 0, 0>>>>, <<<<1, 1, 0, 0>>, <<1, 0, 1, 0>>>> }

\* number_partition_entries and size_single_partition_entry as stored: 8, 4,
\* 5 and 1 entries of 128 bytes, and 2^25 entries of 128 bytes.
ArrayShapes ==
  { <<<<8, 0, 0, 0>>, <<128, 0, 0, 0>>>>, <<<<4, 0, 0, 0>>, <<128, 0, 0, 0>>>>,
    <<<<5, 0, 0, 0>>, <<128, 0, 0, 0>>>>, <<<<1, 0, 0, 0>>, <<128, 0, 0, 0>>>>,
    <<<<0, 0, 0, 2>>, <<128, 0, 0, 0>>>> }

\* The image of a disk with the given array: LBA 0, the header at LBA 1
\* (92 bytes, entry array at LBA 2), the two sectors of entries and a sector
\* of zeros.
GptDisk(shape, fills, crc32, entries_crc32) ==
  SubSeq(Zeros(SECTOR_SIZE)
    \o EfiPart \o Revision \o LeBytes(92, 4) \o crc32 \o Zeros(4)
    \o LeBytes(1, 8) \o LeBytes(4, 8) \o LeBytes(4, 8) \o LeBytes(4, 8)
    \o TestGuidBytes \o LeBytes(2, 8) \o shape[1] \o shape[2] \o entries_crc32
    \o Zeros(SECTOR_SIZE - 92)
    \o EntrySector(2, fills[1]) \o EntrySector(3, fills[2])
    \o Zeros(SECTOR_SIZE), 1, 5 * SECTOR_SIZE)

\* The number of bytes of the entry array that the header declares (the
\* exact product, Huge and more kept as Huge).
ArrayBytes(image) ==
  LeNat(ProductBytes(GptNumberEntries(image), GptSizeEntry(image), 1, 0))

\* The CRC fields that a writer of the image stores: the CRC-32 of the
\* declared bytes of the array (as far as the image holds them), and of the
\* header with that field in place.
StoredEntriesCrc(image) ==
  U32ToLeBytes(CalculateCrc32(
    Slice(image, 2 * SECTOR_SIZE, Min(ArrayBytes(image), Len(image) - 2 * SECTOR_SIZE))))

StoredHeaderCrc(image) ==
  U32ToLeBytes(CalculateCrc32(
    SubSeq([i \in 1..92 |-> IF i \in 17..20 THEN 0 ELSE image[SECTOR_SIZE + i]], 1, 92)))

InitGpt ==
  /\ \/ /\ build = "release"
        /\ \E hs \in HeaderSizes, salt \in 0..MaxSalt, stored \in {"valid", "zero", "off by one"} :
             LET good == IF hs >= 20 THEN ValidCrcFor(hs, salt) ELSE <<1, 2, 3, 4>>
                 crc32 == CASE stored = "valid" -> good
                            [] stored = "zero" -> Zeros(4)
                            [] OTHER -> [good EXCEPT ![1] = (good[1] + 1) % 256]
             IN /\ disk = GptImage(hs, crc32, salt)
                /\ gpt = [pc |-> "header", stored |-> stored,
                          entries_stored |-> "zero", window |-> "sector"]
     \/ \E shape \in ArrayShapes, fills \in SectorFills :
          \E e \in {StoredEntriesCrc(GptDisk(shape, fills, Zeros(4), Zeros(4)))} :
            \E entries_stored \in {"valid", "zero"} :
              \E ecrc \in {IF entries_stored = "valid" THEN e ELSE Zeros(4)} :
                \E h \in {StoredHeaderCrc(GptDisk(shape, fills, Zeros(4), ecrc))} :
                  \E stored \in {"valid", "zero"}, window \in Windows :
                    /\ stored = "valid" \/ entries_stored = "valid"
                    /\ build \in Builds
                    /\ disk = GptDisk(shape, fills,
                                      IF stored = "valid" THEN h ELSE Zeros(4), ecrc)
                    /\ gpt = [pc |-> "header", stored |-> stored,
                              entries_stored |-> entries_stored, window |-> window]
  /\ dt = Off /\ guid = Off /\ bs = Off /\ mft = Off /\ apm = Off /\ mbr = Off /\ pbr = Off

\* parse_gpt's call is_valid_header_crc32(path, header.header_size(),
\* header.crc32).
GptCheckHeaderCrc ==
  /\ gpt.pc = "header"
  /\ gpt' = [gpt EXCEPT !.pc = "checked"]
              @@ [header_crc |-> IsValidHeaderCrc32(disk, GptHeaderSize(disk),
                                                    GptHeaderCrc32(disk))]
  /\ UNCHANGED frameGpt

\* parse_gpt from there on, when the check has returned: the CRC of the
\* entry array and the enumeration, up to the return.
GptEnumerate ==
  /\ gpt.pc = "checked"
  /\ gpt.header_crc.kind = "ok"
  /\ \E r \in {ParseGptEntries(disk, gpt.window, build)} :
       gpt' = [gpt EXCEPT !.pc = "returned"] @@ [result |-> r]
  /\ UNCHANGED frameGpt

NextGpt == GptCheckHeaderCrc \/ GptEnumerate

\* ------------------------------------------------------------------------
\* ByteStream: a buffered window of the image
\* ------------------------------------------------------------------------
\* A stream is [reader_pos, buffer, position]: the position of the
\* BufReader<File> in the image, the bytes of the Cursor<Vec<u8>> and the
\* cursor's position in them.

\* ByteStream::get_byte_offset: reader.seek(SeekFrom::Current(0)) +
\* cursor.position().
GetByteOffset(stream) == stream.reader_pos + stream.position

\* reader.seek(SeekFrom::Start(start)); reader.read_exact(&mut buffer) on a
\* freshly opened file: the size bytes at start, after which the file
\* position is start + size, or an error when the image ends before that.
ReadWindow(image, start, size) ==
  IF start + size > Len(image) THEN [ok |-> FALSE]
  ELSE [ok |-> TRUE,
        stream |-> [reader_pos |-> start + size,
                    buffer |-> Slice(image, start, size),
                    position |-> 0]]

\* ByteStream::new(path, size, offset): offset counts sectors.
ByteStreamNew(image, size, offset) ==
  ReadWindow(image, Sat(offset * SECTOR_SIZE), size)

\* ByteStream::from_byte_offset(path, size, offset): the window starts at
\* the sector that holds offset, and the cursor is advanced by the rest
\* (io::copy of take(byte_offset) stops at the end of the buffer).
FromByteOffset(image, size, offset) ==
  LET sector_num == offset \div SECTOR_SIZE
      byte_offset == offset - (sector_num * SECTOR_SIZE)
      w == ReadWindow(image, sector_num * SECTOR_SIZE, size)
  IN IF ~w.ok THEN w
     ELSE [ok |-> TRUE,
           stream |-> [w.stream EXCEPT !.position = Min(byte_offset, size)]]

\* cursor.read_exact of amount bytes (read_raw, read_byte_array and the
\* integer reads): the bytes at the cursor, which then advances; an error
\* when fewer are left.
ReadBytes(stream, amount) ==
  IF stream.position + amount > Len(stream.buffer) THEN [ok |-> FALSE]
  ELSE [ok |-> TRUE,
        bytes |-> Slice(stream.buffer, stream.position, amount),
        stream |-> [stream EXCEPT !.position = @ + amount]]

\* ByteStream::peek_le::<u32>: the four bytes at the cursor, which is put
\* back where it was.
PeekLeU32(stream) ==
  LET r == ReadBytes(stream, 4)
  IN IF ~r.ok THEN r ELSE [ok |-> TRUE, bytes |-> r.bytes, stream |-> stream]

\* ByteStream::skip_bytes: io::copy of take(amount) into a sink.
SkipBytes(stream, amount) ==
  [stream EXCEPT !.position = Min(@ + amount, Len(stream.buffer))]

\* reader.read_exact of amount bytes at from when the image ends first:
\* the reader has consumed what was there and stands at the end of the
\* image (or at from, beyond it).
ShortReadPosition(image, from) == Max(from, Len(image))

\* ByteStream::read_raw_bytes_from_file.  The file position is saved, moved
\* to from, and restored after the read; a failed read returns before the
\* restore.
ReadRawBytesFromFile(image, stream, from, amount) ==
  IF from + amount > Len(image)
  THEN [ok |-> FALSE,
        stream |-> [stream EXCEPT !.reader_pos = ShortReadPosition(image, from)]]
  ELSE [ok |-> TRUE, bytes |-> Slice(image, from, amount), stream |-> stream]

\* ByteStream::read_raw_sectors_from_file.
ReadRawSectorsFromFile(image, stream, from, amount) ==
  ReadRawBytesFromFile(image, stream, from * SECTOR_SIZE, amount * SECTOR_SIZE)

\* interpret_bytes_as_utf16: the 16-bit units of the bytes, least
\* significant byte first.
Utf16Units(name_bytes) ==
  SubSeq([k \in 1..(Len(name_bytes) \div 2) |->
            name_bytes[2 * k - 1] + 256 * name_bytes[2 * k]],
         1, Len(name_bytes) \div 2)

IsHighSurrogate(u) == 55296 <= u /\ u <= 56319
IsLowSurrogate(u) == 56320 <= u /\ u <= 57343

\* String::from_utf16 succeeds: every high surrogate is followed by a low
\* one and every low surrogate follows a high one.
ValidUtf16(units) ==
  \A k \in 1..Len(units) :
    /\ IsHighSurrogate(units[k])
         => (k < Len(units) /\ IsLowSurrogate(units[k + 1]))
    /\ IsLowSurrogate(units[k])
         => (k > 1 /\ IsHighSurrogate(units[k - 1]))

\* ------------------------------------------------------------------------
\* MFT file records
\* ------------------------------------------------------------------------
\* The cursor has n bytes left; the n bytes k after the cursor; the stream
\* with the cursor n further.
Has(stream, n) == stream.position + n <= Len(stream.buffer)
At(stream, k, n) == Slice(stream.buffer, stream.position + k, n)
Advance(stream, n) == [stream EXCEPT !.position = @ + n]

\* The signature and offset_first_attribute of impl Readable for
\* MftFileDescriptor (48 bytes; the other fields are read and kept).
MftFileDescriptorSize == 48
ReadMftFileDescriptor(stream) ==
  IF ~Has(stream, MftFileDescriptorSize) THEN [kind |-> "err"]
  ELSE [kind |-> "ok",
        stream |-> Advance(stream, MftFileDescriptorSize),
        signature |-> At(stream, 0, 4),
        offset_first_attribute |-> LeNat(At(stream, 20, 2))]

\* impl Readable for AttributeHeader: the common header (16 bytes), then
\* the resident header and a byte of padding (8 bytes) or the non-resident
\* header (48 bytes), then the name of a named attribute.  An invalid name
\* aborts in a resident header and reads as "" in a non-resident one.
\* file_allocation_size is <<>> where the code has None.
ReadAttributeHeader(stream) ==
  IF ~Has(stream, 16) THEN [kind |-> "err"]
  ELSE
    LET attribute_type == At(stream, 0, 4)
        length == LeNat(At(stream, 4, 4))
        non_resident_flag == At(stream, 8, 1)[1]
        name_length == At(stream, 9, 1)[1]
        fixed == IF non_resident_flag = 0 THEN 24 ELSE 64
        units == Utf16Units(At(stream, fixed, 2 * name_length))
        header(name) ==
          [attribute_type |-> attribute_type,
           length |-> length,
           non_resident_flag |-> non_resident_flag,
           attribute_name |-> name,
           file_allocation_size |->
             IF non_resident_flag = 0 THEN <<>>
             ELSE <<LeNat(At(stream, 40, 8))>>]
    IN IF ~Has(stream, fixed) THEN [kind |-> "err"]
       ELSE IF name_length = 0
       THEN [kind |-> "ok", stream |-> Advance(stream, fixed),
             header |-> header(<<>>)]
       ELSE IF ~Has(stream, fixed + 2 * name_length) THEN [kind |-> "err"]
       ELSE IF non_resident_flag = 0 /\ ~ValidUtf16(units)
       THEN [kind |-> "panic"]
       ELSE [kind |-> "ok",
             stream |-> Advance(stream, fixed + 2 * name_length),
             header |-> header(IF ValidUtf16(units) THEN units ELSE <<>>)]

\* Four consecutive reader.read::<NtfsDatetime>() starting k bytes after
\* the cursor: the first that cannot be read is an error, the first that
\* cannot be converted aborts.
ReadDatetimes(stream, k, b) ==
  LET one(j) == ReadNtfsDatetime(At(stream, k + 8 * j, 8), b)
      bad(j) == ~Has(stream, k + 8 * j + 8) \/ one(j).fault = "panic"
  IN IF \E j \in 0..3 : bad(j)
     THEN LET j == CHOOSE x \in 0..3 : bad(x) /\ \A y \in 0..(x - 1) : ~bad(y)
          IN [kind |-> IF ~Has(stream, k + 8 * j + 8) THEN "err" ELSE "panic"]
     ELSE [kind |-> "ok", times |-> <<one(0).ole2, one(1).ole2,
                                      one(2).ole2, one(3).ole2>>]

\* impl Readable for StandardInformation: four timestamps, then 16 bytes.
StandardInformationSize == 48
ReadStandardInformation(stream, b) ==
  LET t == ReadDatetimes(stream, 0, b)
  IN IF t.kind # "ok" THEN t
     ELSE IF ~Has(stream, StandardInformationSize) THEN [kind |-> "err"]
     ELSE [kind |-> "ok", stream |-> Advance(stream, StandardInformationSize),
           attribute |-> [kind |-> "StandardInformation", times |-> t.times]]

\* impl Readable for FileName: the parent reference, four timestamps, 26
\* bytes up to and including name_size and namespace, the name of
\* 2 * name_size bytes (an invalid name aborts) and six bytes of padding.
FileNameFixedSize == 66
ReadFileName(stream, b) ==
  LET t == ReadDatetimes(stream, 8, b)
      name_size == At(stream, 64, 1)[1]
      units == Utf16Units(At(stream, FileNameFixedSize, 2 * name_size))
      total == FileNameFixedSize + 2 * name_size + 6
  IN IF ~Has(stream, 8) THEN [kind |-> "err"]
     ELSE IF t.kind # "ok" THEN t
     ELSE IF ~Has(stream, FileNameFixedSize) THEN [kind |-> "err"]
     ELSE IF ~Has(stream, FileNameFixedSize + 2 * name_size)
     THEN [kind |-> "err"]
     ELSE IF ~ValidUtf16(units) THEN [kind |-> "panic"]
     ELSE IF ~Has(stream, total) THEN [kind |-> "err"]
     ELSE [kind |-> "ok", stream |-> Advance(stream, total),
           attribute |-> [kind |-> "FileName", times |-> t.times,
                          name |-> units]]

\* impl Readable for DataRun: eight bytes; the low nibble of the first is
\* the number of length bytes, the high nibble the number of offset bytes.
\* Indexing past the eighth byte aborts; with no offset bytes the shift
\* count high_nibble * 8 - 1 underflows (an abort with overflow checks,
\* bit 63 without them, which a zero offset does not have).  When the top
\* bit of the offset is set, 0xFF is or-ed into each of its bytes.
ReadDataRun(stream, b) ==
  IF ~Has(stream, 8) THEN [kind |-> "err"]
  ELSE
    LET datarun == At(stream, 0, 8)
        high_nibble == datarun[1] \div 16
        low_nibble == datarun[1] % 16
        negative == datarun[1 + low_nibble + high_nibble] >= 128
    IN IF low_nibble > 7 THEN [kind |-> "panic"]
       ELSE IF high_nibble > 0 /\ low_nibble + high_nibble > 7
       THEN [kind |-> "panic"]
       ELSE IF high_nibble = 0 /\ b = "debug" THEN [kind |-> "panic"]
       ELSE [kind |-> "ok", stream |-> Advance(stream, 8),
             attribute |->
               [kind |-> "Data",
                length |-> SubSeq([i \in 1..8 |->
                                     IF i <= low_nibble THEN datarun[1 + i]
                                     ELSE 0], 1, 8),
                offset |-> SubSeq([i \in 1..8 |->
                                     IF i > high_nibble THEN 0
                                     ELSE IF negative THEN 255
                                     ELSE datarun[1 + low_nibble + i]], 1, 8)]]

FileSignature == <<70, 73, 76, 69>>
BaadSignature == <<66, 65, 65, 68>>
EndMarker == <<255, 255, 255, 255>>
TypeStandardInformation == <<16, 0, 0, 0>>
TypeFileName == <<48, 0, 0, 0>>
TypeData == <<128, 0, 0, 0>>

\* An element of MftFileRecord.attributes: the recorded byte offset, the
\* header and the attribute.  `at` is not in the code: it is the offset in
\* the image of the first byte the attribute was read from.
Recorded(image_offset, header_stream, h, attribute) ==
  [offset |-> GetByteOffset(header_stream),
   header |-> h,
   attribute |-> attribute,
   at |-> (image_offset \div SECTOR_SIZE) * SECTOR_SIZE + header_stream.position]

\* The attribute loop of parse_mft_file_record, from the test of its
\* while on.  stream is the stream the previous attribute was read from
\* (at first the one the descriptor was read from); duplicates is
\* duplicate_attribute_map.  A $DATA attribute of length 0 that is not
\* ignored is read again and again ("hang").
RECURSIVE ParseAttributes(_, _, _, _, _, _, _, _, _)
RECURSIVE ParseAttribute(_, _, _, _, _, _, _, _, _, _)
ParseAttributes(image, mft_record_size, b, ignore_data_attribute, attribute_start_offset, stream, attribute_offset, duplicates, attributes) ==
  With(PeekLeU32(stream), LAMBDA peek :
    IF ~peek.ok THEN [kind |-> "err"]
    ELSE IF peek.bytes = EndMarker
    THEN [kind |-> "some", attributes |-> attributes]
    ELSE With(FromByteOffset(image, mft_record_size,
                             Sat(attribute_start_offset + attribute_offset)),
              LAMBDA w :
      IF ~w.ok THEN [kind |-> "err"]
      ELSE With(ReadAttributeHeader(w.stream), LAMBDA h :
        IF h.kind # "ok" THEN [kind |-> h.kind]
        ELSE ParseAttribute(image, mft_record_size, b, ignore_data_attribute,
                            attribute_start_offset, attribute_offset,
                            duplicates, attributes, h.stream, h.header))))

\* The mutant of ParseAttribute: an attribute of an unknown type is an
\* error of the record.
ParseAttributeUnknownIsError(image, mft_record_size, b, ignore_data_attribute, attribute_start_offset, attribute_offset, duplicates, attributes, header_stream, h) ==
  LET type == h.attribute_type
      done == [kind |-> "some", attributes |-> attributes]
  IN IF type \in duplicates THEN done
     ELSE IF type \notin {TypeStandardInformation, TypeFileName, TypeData}
     THEN [kind |-> "err"]
     ELSE IF type = TypeData /\ ignore_data_attribute THEN done
     ELSE
       With(CASE type = TypeStandardInformation ->
                   ReadStandardInformation(header_stream, b)
              [] type = TypeFileName -> ReadFileName(header_stream, b)
              [] OTHER -> ReadDataRun(header_stream, b),
            LAMBDA body :
         IF body.kind # "ok" THEN [kind |-> body.kind]
         ELSE With(Append(attributes,
                          Recorded(Sat(attribute_start_offset + attribute_offset),
                                   header_stream, h, body.attribute)),
                   LAMBDA pushed :
           IF type = TypeData /\ h.length = 0
           THEN With(PeekLeU32(body.stream), LAMBDA again :
                  IF ~again.ok THEN [kind |-> "err"]
                  ELSE IF again.bytes = EndMarker
                  THEN [kind |-> "some", attributes |-> pushed]
                  ELSE [kind |-> "hang"])
           ELSE ParseAttributes(image, mft_record_size, b,
                                ignore_data_attribute, attribute_start_offset,
                                body.stream, Sat(attribute_offset + h.length),
                                IF type = TypeData THEN duplicates
                                ELSE duplicates \cup {type},
                                pushed)))

\* The body of the loop from the duplicate test on: header_stream is the
\* stream after the header h has been read from it.
ParseAttribute(image, mft_record_size, b, ignore_data_attribute, attribute_start_offset, attribute_offset, duplicates, attributes, header_stream, h) ==
  LET type == h.attribute_type
      done == [kind |-> "some", attributes |-> attributes]
  IN IF type \in duplicates THEN done
     ELSE IF type \notin {TypeStandardInformation, TypeFileName, TypeData}
     THEN done
     ELSE IF type = TypeData /\ ignore_data_attribute THEN done
     ELSE
       With(CASE type = TypeStandardInformation ->
                   ReadStandardInformation(header_stream, b)
              [] type = TypeFileName -> ReadFileName(header_stream, b)
              [] OTHER -> ReadDataRun(header_stream, b),
            LAMBDA body :
         IF body.kind # "ok" THEN [kind |-> body.kind]
         ELSE With(Append(attributes,
                          Recorded(Sat(attribute_start_offset + attribute_offset),
                                   header_stream, h, body.attribute)),
                   LAMBDA pushed :
           IF type = TypeData /\ h.length = 0
           THEN With(PeekLeU32(body.stream), LAMBDA again :
                  IF ~again.ok THEN [kind |-> "err"]
                  ELSE IF again.bytes = EndMarker
                  THEN [kind |-> "some", attributes |-> pushed]
                  ELSE [kind |-> "hang"])
           ELSE ParseAttributes(image, mft_record_size, b,
                                ignore_data_attribute, attribute_start_offset,
                                body.stream, Sat(attribute_offset + h.length),
                                IF type = TypeData THEN duplicates
                                ELSE duplicates \cup {type},
                                pushed)))

\* parse_mft_file_record.
ParseMftFileRecord(image, starting_offset, mft_record_size, ignore_data_attribute, b) ==
  With(FromByteOffset(image, mft_record_size, starting_offset), LAMBDA w :
    IF ~w.ok THEN [kind |-> "err"]
    ELSE With(ReadMftFileDescriptor(w.stream), LAMBDA d :
      IF d.kind # "ok" THEN [kind |-> "err"]
      ELSE IF d.signature = FileSignature
      THEN ParseAttributes(image, mft_record_size, b, ignore_data_attribute,
                           starting_offset + d.offset_first_attribute,
                           d.stream, 0, {}, <<>>)
      ELSE IF d.signature = BaadSignature THEN [kind |-> "panic"]
      ELSE [kind |-> "none"]))

\* The while loop of parse_mft: the records from offset up to the end of
\* the allocation.  visited lists the offsets the loop has parsed at.
RECURSIVE ParseRecords(_, _, _, _, _, _, _)
ParseRecords(image, mft_record_size, b, offset, end, records, visited) ==
  IF ~(offset < end) THEN [kind |-> "ok", records |-> records, visited |-> visited]
  ELSE With(ParseMftFileRecord(image, offset, mft_record_size, TRUE, b),
            LAMBDA r :
         IF r.kind \in {"err", "panic", "hang"} THEN [kind |-> r.kind]
         ELSE With(IF r.kind = "some"
                   THEN Append(records, [attributes |-> r.attributes])
                   ELSE records,
                   LAMBDA pushed :
                ParseRecords(image, mft_record_size, b,
                             offset + mft_record_size, end, pushed,
                             Append(visited, offset))))

IsData(a) == a.attribute.kind = "Data"

\* The stride to the second record, whatever the record size.
FirstStride == 1024

\* parse_mft: the record of the MFT itself, then the records its first
\* $DATA attribute allocates.
ParseMft(image, mft_lba, mft_record_size, b) ==
  With(ParseMftFileRecord(image, mft_lba * SECTOR_SIZE, mft_record_size,
                          FALSE, b),
       LAMBDA mft_record :
    IF mft_record.kind \in {"err", "panic", "hang"}
    THEN [kind |-> mft_record.kind]
    ELSE IF mft_record.kind = "none" THEN [kind |-> "panic"]
    ELSE With(SelectSeq(mft_record.attributes, IsData), LAMBDA data :
      IF data = <<>>
      THEN [kind |-> "ok",
            records |-> <<[attributes |-> mft_record.attributes]>>,
            visited |-> <<>>]
      ELSE IF data[1].header.file_allocation_size = <<>>
      THEN [kind |-> "panic"]
      ELSE ParseRecords(image, mft_record_size, b,
                        mft_lba * SECTOR_SIZE + FirstStride,
                        Sat(mft_lba * SECTOR_SIZE
                              + data[1].header.file_allocation_size[1]),
                        <<[attributes |-> mft_record.attributes]>>, <<>>)))

\* MftFileRecord::has_file_name_attribute.  The mutant matches any name.
HasFileNameAttributeAnyName(record, file_name) ==
  \E k \in 1..Len(record.attributes) :
    /\ record.attributes[k].header.attribute_type = TypeFileName
    /\ record.attributes[k].attribute.kind = "FileName"

HasFileNameAttribute(record, file_name) ==
  \E k \in 1..Len(record.attributes) :
    /\ record.attributes[k].header.attribute_type = TypeFileName
    /\ record.attributes[k].attribute.kind = "FileName"
    /\ record.attributes[k].attribute.name = file_name

\* The image after the eight seek-and-write pairs of timestomp_mft, in
\* their order: for i in 0..4 the value at stdinfo + 8i, then at
\* fn + 8 + 8i.  A write past the end extends the file, with zeros between.
Written(image, stdinfo_offset, fn_offset, value) ==
  LET group(o) == [x \in o..(o + 7) |-> value[x - o + 1]]
      si(k) == group(stdinfo_offset + 8 * k)
      fn(k) == group(fn_offset + 8 + 8 * k)
      end == Max(Len(image), Max(stdinfo_offset + 32, fn_offset + 40))
  IN With(fn(3) @@ si(3) @@ fn(2) @@ si(2) @@ fn(1) @@ si(1) @@ fn(0) @@ si(0),
          LAMBDA patch :
       SubSeq([x \in 1..end |-> IF (x - 1) \in DOMAIN patch THEN patch[x - 1]
                                ELSE IF x <= Len(image) THEN image[x]
                                ELSE 0], 1, end))

\* The mutant of TimestompMft: the $FILE_NAME timestamps are written from
\* the start of the attribute (the parent reference is not skipped).
TimestompMftNoSkip(image, records, file_name, timestamp, b) ==
  LET Named(r) == HasFileNameAttribute(r, file_name)
      IsFn(a) == a.header.attribute_type = TypeFileName
      IsSi(a) == a.header.attribute_type = TypeStandardInformation
      aborted(opened) ==
        [outcome |-> "panic", opened |-> opened, image |-> image]
  IN With(SelectSeq(records, Named), LAMBDA records_with_file_name :
       IF records_with_file_name = <<>>
       THEN [outcome |-> "no record", opened |-> FALSE, image |-> image]
       ELSE
         With(SelectSeq(records_with_file_name[1].attributes, IsFn),
              LAMBDA fn_attrib :
         With(SelectSeq(records_with_file_name[1].attributes, IsSi),
              LAMBDA stdinfo_attrib :
           IF fn_attrib = <<>> \/ stdinfo_attrib = <<>> THEN aborted(FALSE)
           ELSE With(Ole2(NtfsDatetimeFrom(timestamp), b), LAMBDA v :
                  IF v.fault = "panic" THEN aborted(TRUE)
                  ELSE [outcome |-> "written", opened |-> TRUE,
                        image |-> Written(image, stdinfo_attrib[1].offset,
                                          fn_attrib[1].offset - 8,
                                          U64ToLeBytes(v.value))]))))

\* timestomp_mft: the first record with a $FILE_NAME named file_name, its
\* first $FILE_NAME and $STANDARD_INFORMATION attributes (a missing one
\* aborts), the image opened for writing, then the writes; the value is
\* computed at each write, so an overflow aborts before the first.
TimestompMft(image, records, file_name, timestamp, b) ==
  LET Named(r) == HasFileNameAttribute(r, file_name)
      IsFn(a) == a.header.attribute_type = TypeFileName
      IsSi(a) == a.header.attribute_type = TypeStandardInformation
      aborted(opened) ==
        [outcome |-> "panic", opened |-> opened, image |-> image]
  IN With(SelectSeq(records, Named), LAMBDA records_with_file_name :
       IF records_with_file_name = <<>>
       THEN [outcome |-> "no record", opened |-> FALSE, image |-> image]
       ELSE
         With(SelectSeq(records_with_file_name[1].attributes, IsFn),
              LAMBDA fn_attrib :
         With(SelectSeq(records_with_file_name[1].attributes, IsSi),
              LAMBDA stdinfo_attrib :
           IF fn_attrib = <<>> \/ stdinfo_attrib = <<>> THEN aborted(FALSE)
           ELSE With(Ole2(NtfsDatetimeFrom(timestamp), b), LAMBDA v :
                  IF v.fault = "panic" THEN aborted(TRUE)
                  ELSE [outcome |-> "written", opened |-> TRUE,
                        image |-> Written(image, stdinfo_attrib[1].offset,
                                          fn_attrib[1].offset,
                                          U64ToLeBytes(v.value))]))))

\* ------------------------------------------------------------------------
\* Images with an MFT
\* ------------------------------------------------------------------------
NameBytes(units) ==
  [x \in 1..(2 * Len(units)) |->
     IF x % 2 = 1 THEN units[(x + 1) \div 2] % 256 ELSE units[x \div 2] \div 256]

RoundUp8(n) == ((n + 7) \div 8) * 8
PadTo(bytes, n) == bytes \o Zeros(n - Len(bytes))

\* The 48 bytes of a file descriptor and the update sequence after them.
FirstAttribute == 56
FileDescriptorBytes(mft_record_size) ==
  PadTo(FileSignature \o LeBytes(MftFileDescriptorSize, 2) \o LeBytes(3, 2)
          \o Zeros(8) \o LeBytes(1, 2) \o LeBytes(1, 2)
          \o LeBytes(FirstAttribute, 2) \o LeBytes(1, 2) \o LeBytes(416, 4)
          \o LeBytes(mft_record_size, 4) \o Zeros(8) \o LeBytes(4, 2)
          \o Zeros(6) \o LeBytes(2, 2), FirstAttribute)

\* A resident unnamed attribute: the 24 bytes of header, then the body.
ResidentAttribute(type, body) ==
  PadTo(type \o LeBytes(RoundUp8(24 + Len(body)), 4) \o <<0, 0>>
          \o LeBytes(24, 2) \o Zeros(4) \o LeBytes(Len(body), 4)
          \o LeBytes(24, 2) \o <<0, 0>> \o body,
        RoundUp8(24 + Len(body)))

StandardInformationAttribute(time) ==
  ResidentAttribute(TypeStandardInformation,
                    time \o time \o time \o time \o LeBytes(32, 4) \o Zeros(12))

FileNameAttribute(time, name) ==
  ResidentAttribute(TypeFileName,
                    LeBytes(5, 8) \o time \o time \o time \o time \o Zeros(16)
                      \o LeBytes(32, 4) \o Zeros(4) \o <<Len(name), 3>>
                      \o NameBytes(name))

\* A non-resident unnamed $DATA attribute with one run (0x31: one length
\* byte, three offset bytes).
DataAttribute(allocation_size) ==
  TypeData \o LeBytes(72, 4) \o <<1, 0>> \o LeBytes(64, 2) \o Zeros(4)
    \o Zeros(8) \o LeBytes(63, 8) \o LeBytes(64, 2) \o Zeros(6)
    \o LeBytes(allocation_size, 8) \o LeBytes(allocation_size, 8)
    \o LeBytes(allocation_size, 8) \o <<49, 64, 85, 79, 1, 0, 0, 0>>

RecordOf(mft_record_size, attributes) ==
  PadTo(FileDescriptorBytes(mft_record_size) \o attributes \o EndMarker,
        mft_record_size)

MftName == <<36, 77, 70, 84>>
NameA == <<97>>
NameAbsent == <<122, 122>>
LongName == <<108, 111, 110, 103, 95, 110, 97, 109, 101, 46, 116, 120>>

\* The record in a slot: a file named "a", a record with a $FILE_NAME only
\* whose name is twelve characters long, or an unused slot.
SlotKinds == {"file", "name only", "unused"}
SlotBytes(kind, mft_record_size) ==
  CASE kind = "file" ->
         RecordOf(mft_record_size,
                  StandardInformationAttribute(StompBytes)
                    \o FileNameAttribute(StompBytes, NameA))
    [] kind = "name only" ->
         RecordOf(mft_record_size, FileNameAttribute(StompBytes, LongName))
    [] OTHER -> Zeros(mft_record_size)

\* An image that starts with its MFT: the record of $MFT, whose $DATA
\* allocates the three slots, and two more slots.
MftImage(img) ==
  RecordOf(img.record_size,
           StandardInformationAttribute(StompBytes)
             \o FileNameAttribute(StompBytes, MftName)
             \o DataAttribute(3 * img.record_size))
    \o SlotBytes(img.slots[1], img.record_size)
    \o SlotBytes(img.slots[2], img.record_size)

\* The record sizes: the one the stride to the second record is right for,
\* and a sector.
RecordSizes == {FirstStride, SECTOR_SIZE}
Images == [record_size : RecordSizes, slots : SlotKinds \X SlotKinds]

\* Runs of the timestomp command on an image: each run decodes the MFT of
\* the image as it stands and then calls timestomp_mft with the records.
\* mft.runs is the history of the finished runs.
MaxRuns == 2
FileNames == {NameA, NameAbsent}

\* 1700000000; 1700000037, the second 16 bits of whose OLE2 value are
\* 0xDC7A; and 1833029933771, the first whose OLE2 value passes 2^64.
Timestamps ==
  {<<61696, 25939, 0, 0>>, <<61733, 25939, 0, 0>>, <<6859, 51481, 426, 0>>}

InitMft ==
  /\ build \in Builds
  /\ \E img \in Images :
       /\ disk = MftImage(img)
       /\ mft = [pc |-> "idle", img |-> img, records |-> <<>>, runs |-> <<>>,
                 file_name |-> <<>>, timestamp |-> U64Zero]
  /\ dt = Off /\ guid = Off /\ gpt = Off /\ bs = Off /\ apm = Off /\ mbr = Off /\ pbr = Off

Finished(file_name, timestamp, outcome, opened) ==
  [mft EXCEPT !.pc = "idle", !.records = <<>>,
     !.runs = Append(@, [file_name |-> file_name, timestamp |-> timestamp,
                         outcome |-> outcome, opened |-> opened])]

\* A run starts: parse_mft; a run whose parse fails ends there.
MftParse ==
  /\ mft.pc = "idle"
  /\ Len(mft.runs) < MaxRuns
  /\ \E p \in {ParseMft(disk, 0, mft.img.record_size, build)} :
       \E file_name \in FileNames, timestamp \in Timestamps :
          IF p.kind = "ok"
          THEN mft' = [mft EXCEPT !.pc = "parsed", !.records = p.records,
                         !.file_name = file_name, !.timestamp = timestamp]
          ELSE mft' = Finished(file_name, timestamp, p.kind, FALSE)
  /\ UNCHANGED <<disk, frameMft>>

\* The run goes on: timestomp_mft with the records just decoded.
MftTimestomp ==
  /\ mft.pc = "parsed"
  /\ \E r \in {TimestompMft(disk, mft.records, mft.file_name, mft.timestamp,
                            build)} :
        /\ disk' = r.image
        /\ mft' = Finished(mft.file_name, mft.timestamp, r.outcome, r.opened)
  /\ UNCHANGED frameMft

NextMft ==
  \/ MftParse
  \/ MftTimestomp

\* The operations of one stream on an image.  bs.origin is the offset in
\* the image of the first byte of the window, bs.last is the last call and
\* what it returned.
StreamImageLen == 1030
StreamImage == [i \in 1..StreamImageLen |-> (7 * i) % 251]
StreamSizes == {16, 512}
StreamSectors == 0..2
StreamByteOffsets == {0, 8, 520, 600, 1024}
MaxStreamOps == 2
ReadAmounts == {4, 12}
FileReads == {<<0, 8>>, <<1020, 8>>, <<1026, 8>>, <<2000, 4>>}
SectorReads == {<<0, 1>>, <<1, 1>>, <<2, 1>>}

InitStream ==
  /\ build = "release"
  /\ disk = StreamImage
  /\ bs = [pc |-> "closed"]
  /\ dt = Off /\ guid = Off /\ gpt = Off /\ mft = Off /\ apm = Off /\ mbr = Off /\ pbr = Off

Opened(w, origin, op, arg) ==
  IF w.ok
  THEN [pc |-> "open", stream |-> w.stream, origin |-> origin, ops |-> 0,
        last |-> [op |-> op, arg |-> arg]]
  ELSE [pc |-> "failed"]

BsNew ==
  /\ bs.pc = "closed"
  /\ \E size \in StreamSizes, offset \in StreamSectors :
       bs' = Opened(ByteStreamNew(disk, size, offset), offset * SECTOR_SIZE,
                    "new", offset)
  /\ UNCHANGED <<disk, frameBs>>

BsFromByteOffset ==
  /\ bs.pc = "closed"
  /\ \E size \in StreamSizes, offset \in StreamByteOffsets :
       bs' = Opened(FromByteOffset(disk, size, offset),
                    (offset \div SECTOR_SIZE) * SECTOR_SIZE,
                    "from_byte_offset", offset)
  /\ UNCHANGED <<disk, frameBs>>

CanCall == bs.pc = "open" /\ bs.ops < MaxStreamOps

\* A failed read_exact on the cursor leaves it where it was or at the end
\* of the buffer, depending on the version of the standard library.
AfterFailedRead(stream) ==
  {stream, [stream EXCEPT !.position = Len(stream.buffer)]}

BsReadRaw ==
  /\ CanCall
  /\ \E amount \in ReadAmounts :
       LET r == ReadBytes(bs.stream, amount)
       IN IF r.ok
          THEN bs' = [bs EXCEPT !.stream = r.stream, !.ops = @ + 1,
                        !.last = [op |-> "read_raw", ok |-> TRUE,
                                  bytes |-> r.bytes]]
          ELSE \E s \in AfterFailedRead(bs.stream) :
                 bs' = [bs EXCEPT !.stream = s, !.ops = @ + 1,
                          !.last = [op |-> "read_raw", ok |-> FALSE]]
  /\ UNCHANGED <<disk, frameBs>>

BsPeekLe ==
  /\ CanCall
  /\ LET r == PeekLeU32(bs.stream)
     IN IF r.ok
        THEN bs' = [bs EXCEPT !.stream = r.stream, !.ops = @ + 1,
                      !.last = [op |-> "peek_le", ok |-> TRUE,
                                bytes |-> r.bytes]]
        ELSE \E s \in AfterFailedRead(bs.stream) :
               bs' = [bs EXCEPT !.stream = s, !.ops = @ + 1,
                        !.last = [op |-> "peek_le", ok |-> FALSE]]
  /\ UNCHANGED <<disk, frameBs>>

BsSkipBytes ==
  /\ CanCall
  /\ \E amount \in ReadAmounts :
       bs' = [bs EXCEPT !.stream = SkipBytes(bs.stream, amount), !.ops = @ + 1,
                !.last = [op |-> "skip_bytes", amount |-> amount]]
  /\ UNCHANGED <<disk, frameBs>>

BsGetByteOffset ==
  /\ CanCall
  /\ bs' = [bs EXCEPT !.ops = @ + 1,
              !.last = [op |-> "get_byte_offset",
                        value |-> GetByteOffset(bs.stream)]]
  /\ UNCHANGED <<disk, frameBs>>

FromFile(op, r) ==
  [bs EXCEPT !.stream = r.stream, !.ops = @ + 1,
     !.last = [op |-> op, ok |-> r.ok, before |-> bs.stream,
               bytes |-> IF r.ok THEN r.bytes ELSE <<>>]]

BsReadRawBytesFromFile ==
  /\ CanCall
  /\ \E c \in FileReads :
       bs' = FromFile("read_raw_bytes_from_file",
                      ReadRawBytesFromFile(disk, bs.stream, c[1], c[2]))
  /\ UNCHANGED <<disk, frameBs>>

BsReadRawSectorsFromFile ==
  /\ CanCall
  /\ \E c \in SectorReads :
       bs' = FromFile("read_raw_sectors_from_file",
                      ReadRawSectorsFromFile(disk, bs.stream, c[1], c[2]))
  /\ UNCHANGED <<disk, frameBs>>

NextStream ==
  \/ BsNew
  \/ BsFromByteOffset
  \/ BsReadRaw
  \/ BsPeekLe
  \/ BsSkipBytes
  \/ BsGetByteOffset
  \/ BsReadRawBytesFromFile
  \/ BsReadRawSectorsFromFile

\* ------------------------------------------------------------------------
\* APM: the Apple partition map
\* ------------------------------------------------------------------------

\* String::from_utf8 succeeds on bytes[i..]: every character is a
\* well-formed UTF-8 sequence (no overlong form, no surrogate, nothing
\* above U+10FFFF).
RECURSIVE ValidUtf8From(_, _)
ValidUtf8From(bytes, i) ==
  LET n == Len(bytes)
      b0 == bytes[i]
      Cont(k, lo, hi) == i + k <= n /\ bytes[i + k] >= lo /\ bytes[i + k] <= hi
  IN IF i > n THEN TRUE
     ELSE IF b0 <= 127 THEN ValidUtf8From(bytes, i + 1)
     ELSE IF b0 >= 194 /\ b0 <= 223
     THEN Cont(1, 128, 191) /\ ValidUtf8From(bytes, i + 2)
     ELSE IF b0 >= 224 /\ b0 <= 239
     THEN /\ Cont(1, IF b0 = 224 THEN 160 ELSE 128, IF b0 = 237 THEN 159 ELSE 191)
          /\ Cont(2, 128, 191)
          /\ ValidUtf8From(bytes, i + 3)
     ELSE IF b0 >= 240 /\ b0 <= 244
     THEN /\ Cont(1, IF b0 = 240 THEN 144 ELSE 128, IF b0 = 244 THEN 143 ELSE 191)
          /\ Cont(2, 128, 191)
          /\ Cont(3, 128, 191)
          /\ ValidUtf8From(bytes, i + 4)
     ELSE FALSE

ValidUtf8(bytes) == ValidUtf8From(bytes, 1)

\* read_be::<u32>: four bytes, most significant first.
BeNat(b) == LeNat(<<b[4], b[3], b[2], b[1]>>)

\* "PM".
PmSignature == <<80, 77>>

\* The bytes impl Readable for ApmPartitionTable consumes.
ApmEntrySize == 136

\* stream.jump_to_sector(i) followed by stream.read::<ApmPartitionTable>():
\* the entry stored at the start of sector i.  The signature, the name and
\* the type are converted with String::from_utf8(..).unwrap(), in this
\* order, each when its bytes have been read.
ReadApmPartitionTable(image, i) ==
  With(i * SECTOR_SIZE, LAMBDA at :
    IF at + 2 > Len(image) THEN [kind |-> "err"]
    ELSE IF ~ValidUtf8(Slice(image, at, 2)) THEN [kind |-> "panic"]
    ELSE IF at + 48 > Len(image) THEN [kind |-> "err"]
    ELSE IF ~ValidUtf8(Slice(image, at + 16, 32)) THEN [kind |-> "panic"]
    ELSE IF at + 80 > Len(image) THEN [kind |-> "err"]
    ELSE IF ~ValidUtf8(Slice(image, at + 48, 32)) THEN [kind |-> "panic"]
    ELSE IF at + ApmEntrySize > Len(image) THEN [kind |-> "err"]
    ELSE [kind |-> "ok",
          table |-> [signature |-> Slice(image, at, 2),
                     number_of_partitions |-> BeNat(Slice(image, at + 4, 4)),
                     starting_lba |-> BeNat(Slice(image, at + 8, 4)),
                     size_in_sectors |-> BeNat(Slice(image, at + 12, 4)),
                     partition_name |-> Slice(image, at + 16, 32),
                     partition_type |-> Slice(image, at + 48, 32)]])

\* ApmPartitionTable::is_valid_apm_partition_table_entry.
IsValidApmPartitionTableEntry(table) == table.signature = PmSignature

\* The end of the range 1..63 of parse_apm (not included).
ApmRangeEnd == 63

\* A partition map entry: the signature, the number of entries, the start
\* and the size of the partition, its name and its type.
ApmEntryBytes(signature, k, name) ==
  signature \o <<0, 0>> \o <<0, 0, 0, 3>> \o <<0, 0, 0, 64 + k>> \o <<0, 0, 0, 8>>
    \o name \o Zeros(32 - Len(name))
    \o <<65, 112, 112, 108, 101, 95, 72, 70, 83>> \o Zeros(23)
    \o Zeros(ApmEntrySize - 80)

ApmSector(signature, k, name) ==
  ApmEntryBytes(signature, k, name) \o Zeros(SECTOR_SIZE - ApmEntrySize)

\* The driver descriptor map of LBA 0 ("ER").
DriverDescriptorSector == <<69, 82>> \o <<2, 0>> \o Zeros(SECTOR_SIZE - 4)

\* `count` sectors of "PM" entries from LBA `from` on.
RECURSIVE PmSectors(_, _, _)
PmSectors(from, count, name) ==
  IF count = 0 THEN <<>>
  ELSE IF count = 1 THEN ApmSector(PmSignature, from, name)
  ELSE PmSectors(from, count \div 2, name)
         \o PmSectors(from + count \div 2, count - count \div 2, name)

\* The signatures of the entry that ends the map: zeros, "ER", "PN", "pm",
\* the two bytes of U+00E9, and two pairs that are not UTF-8.
EndSignatures == {<<0, 0>>, <<69, 82>>, <<80, 78>>, <<112, 109>>, <<195, 169>>,
                  <<255, 255>>, <<80, 128>>}

\* The names of the entries: "disk", and four bytes that are not UTF-8.
ApmNames == {<<100, 105, 115, 107>>, <<100, 105, 192, 107>>}

\* The numbers of "PM" entries before the end of the map: few, and enough
\* to fill every sector the loop can reach.
MaxShortMap == 3
MapLengths == (0..MaxShortMap) \cup {ApmRangeEnd - 2, ApmRangeEnd - 1, ApmRangeEnd}

\* An image with `count` "PM" entries from LBA 1 on, then (unless the image
\* ends there) an entry with the signature `ending` and one more "PM"
\* entry after it.
ApmImage(count, name, ending) ==
  DriverDescriptorSector \o PmSectors(1, count, name)
    \o (IF ending = <<>> THEN <<>>
        ELSE ApmSector(ending, 0, name) \o ApmSector(PmSignature, count + 2, name))

InitApm ==
  /\ build \in Builds
  /\ \E count \in MapLengths, name \in ApmNames, ending \in EndSignatures \cup {<<>>} :
       /\ count > MaxShortMap => (name = <<100, 105, 115, 107>> /\ ending \in {<<>>, <<0, 0>>})
       /\ disk = SubSeq(ApmImage(count, name, ending), 1, Len(ApmImage(count, name, ending)))
  /\ apm = [pc |-> "loop", i |-> 1, partition_tables |-> <<>>, read |-> <<>>]
  /\ dt = Off /\ guid = Off /\ gpt = Off /\ bs = Off /\ mft = Off /\ mbr = Off /\ pbr = Off

\* One turn of the loop `for i in 1..63` of parse_apm.  apm.read lists the
\* sectors the loop has read from (it is not in the code); partition_tables
\* keeps the sector each entry was read from with the entry.
ApmReadEntry ==
  /\ apm.pc = "loop"
  /\ apm.i < ApmRangeEnd
  /\ \E r \in {ReadApmPartitionTable(disk, apm.i)} :
       apm' = IF r.kind # "ok"
              THEN [apm EXCEPT !.pc = r.kind, !.read = Append(@, apm.i)]
              ELSE IF ~IsValidApmPartitionTableEntry(r.table)
              THEN [apm EXCEPT !.pc = "returned", !.read = Append(@, apm.i)]
              ELSE [apm EXCEPT !.i = @ + 1, !.read = Append(@, apm.i),
                               !.partition_tables = Append(@, [lba |-> apm.i] @@ r.table)]
  /\ UNCHANGED <<disk, frameApm>>

\* The range is exhausted: Ok(partition_tables).
ApmRangeDone ==
  /\ apm.pc = "loop"
  /\ apm.i = ApmRangeEnd
  /\ apm' = [apm EXCEPT !.pc = "returned"]
  /\ UNCHANGED <<disk, frameApm>>

NextApm == ApmReadEntry \/ ApmRangeDone

\* ------------------------------------------------------------------------
\* MBR: the boot record tree
\* ------------------------------------------------------------------------
BOOTSTRAPER_LENGTH == 446

\* The size of an MbrPartitionTableEntry on disk: 1 + 3 + 1 + 3 + 4 + 4.
MbrEntrySize == 16

\* Boot record can only have at max 4 entries.
EntriesPerBootRecord == 4

\* a & b and a | b of two naturals, bit by bit.
RECURSIVE BitAnd(_, _)
BitAnd(a, b) ==
  IF a = 0 \/ b = 0 THEN 0
  ELSE (a % 2) * (b % 2) + 2 * BitAnd(a \div 2, b \div 2)

RECURSIVE BitOr(_, _)
BitOr(a, b) ==
  IF a = 0 THEN b
  ELSE IF b = 0 THEN a
  ELSE Max(a % 2, b % 2) + 2 * BitOr(a \div 2, b \div 2)

\* a << k in u16 (bits shifted out are lost).
ShiftLeft16(a, k) == (a * (2 ^ k)) % 65536

CHS_SECTOR_BIT_SIZE == 6
FIRST_TWO_BIT_MASK == 192

\* MbrPartitionTableEntry::chs_head, chs_sector and chs_cylinder; chs[k + 1]
\* is the source's chs[k].
ChsHead(chs) == chs[1]

ChsSector(chs) == BitAnd(chs[2], (2 ^ CHS_SECTOR_BIT_SIZE) - 1)

\* The mutant of ChsCylinder: the two high bits are shifted by 8.
ChsCylinderShift8(chs) == BitOr(ShiftLeft16(BitAnd(chs[2], FIRST_TWO_BIT_MASK), 8), chs[3])

ChsCylinder(chs) == BitOr(ShiftLeft16(BitAnd(chs[2], FIRST_TWO_BIT_MASK), 2), chs[3])

\* MbrPartitionTableEntry::parse_starting_chs / parse_ending_chs.
ParseChs(chs) == <<ChsCylinder(chs), ChsHead(chs), ChsSector(chs)>>

\* stream.read::<MbrPartitionTableEntry>() at byte offset `at` of the
\* image: sixteen bytes, the two u32 stored least significant byte first.
ReadMbrPartitionTableEntry(image, at) ==
  IF at + MbrEntrySize > Len(image) THEN [ok |-> FALSE]
  ELSE [ok |-> TRUE,
        entry |-> [bootable |-> image[at + 1],
                   starting_chs |-> Slice(image, at + 1, 3),
                   partition_type |-> image[at + 5],
                   ending_chs |-> Slice(image, at + 5, 3),
                   lba_start |-> LeNat(Slice(image, at + 8, 4)),
                   num_sectors |-> LeNat(Slice(image, at + 12, 4))]]

\* MbrPartitionTableEntry::is_empty.
MbrEntryIsEmpty(entry) ==
  /\ entry.bootable = 0
  /\ AllZero(entry.starting_chs)
  /\ entry.partition_type = 0
  /\ AllZero(entry.ending_chs)
  /\ entry.lba_start = 0
  /\ entry.num_sectors = 0

\* The mutant of IsExtendedPartition: type 0x85 (Linux extended) counts too.
IsExtendedPartitionOrLinux(entry) == entry.partition_type \in {5, 15, 133}

\* MbrPartitionTableEntry::is_extended_partition.
IsExtendedPartition(entry) == entry.partition_type = 5 \/ entry.partition_type = 15

\* bootable != 0x00 && bootable != 0x80 && (0x01..0x7F).contains(&bootable):
\* the range does not include its end.
BootableRejected(bootable) ==
  bootable # 0 /\ bootable # 128 /\ (bootable >= 1 /\ bootable < 127)

\* MbrPartitionTableEntryNode::new and ::default; an Option is <<>> or <<x>>,
\* and children is <<>> where the code has None.
NewNode(partition_table_entry, image_offset_sectors) ==
  [partition_table_entry |-> <<partition_table_entry>>,
   children |-> <<>>,
   image_offset_sectors |-> image_offset_sectors]

DefaultNode == [partition_table_entry |-> <<>>, children |-> <<>>, image_offset_sectors |-> 0]

\* MbrPartitionTableEntryNode::add_child.
AddChild(node, child) == [node EXCEPT !.children = Append(@, child)]

\* The mutant of NextBootRecord: the entry's start is not added to the LBA
\* of the first EBR.
NextBootRecordAtFirstEbr(is_first, first_ebr_lba, start_lba) ==
  IF is_first THEN [image_offset_sector |-> start_lba, first_ebr_lba |-> start_lba]
  ELSE [image_offset_sector |-> first_ebr_lba, first_ebr_lba |-> first_ebr_lba]

\* Another mutant of NextBootRecord: the LBA of the first EBR moves on
\* with every EBR.
NextBootRecordMovingFirstEbr(is_first, first_ebr_lba, start_lba) ==
  IF is_first THEN [image_offset_sector |-> start_lba, first_ebr_lba |-> start_lba]
  ELSE [image_offset_sector |-> first_ebr_lba + start_lba,
        first_ebr_lba |-> first_ebr_lba + start_lba]

\* The arguments of the recursive call of parse_sector for an extended
\* entry: the first one of the MBR is at start_lba, which becomes
\* first_ebr_lba; the others are at first_ebr_lba + start_lba.
NextBootRecord(is_first, first_ebr_lba, start_lba) ==
  IF is_first THEN [image_offset_sector |-> start_lba, first_ebr_lba |-> start_lba]
  ELSE [image_offset_sector |-> first_ebr_lba + start_lba, first_ebr_lba |-> first_ebr_lba]

\* A call of parse_sector that is under way: its arguments, the entries it
\* has read and whether its loop has ended.
Call(node, is_first, image_offset_sector, first_ebr_lba) ==
  [node |-> node, is_first |-> is_first, image_offset_sector |-> image_offset_sector,
   first_ebr_lba |-> first_ebr_lba, index |-> 0, done |-> FALSE]

\* The calls of parse_sector that fit the stack of the process.
MaxDepth == 5

\* One partition table entry as sixteen bytes; lba_start is below 256.
MbrEntryBytes(bootable, partition_type, lba_start) ==
  <<bootable, 0, 2, 0, partition_type, 1, 194, 3, lba_start, 0, 0, 0, 8, 0, 0, 0>>

\* A boot record sector with the given table (at most four entries of
\* sixteen bytes, the rest of the table zero) and the boot signature.
RECURSIVE Flatten(_)
Flatten(parts) == IF parts = <<>> THEN <<>> ELSE Head(parts) \o Flatten(Tail(parts))

BootRecord(table) ==
  SubSeq([i \in 1..BOOTSTRAPER_LENGTH |-> 0], 1, BOOTSTRAPER_LENGTH)
    \o Flatten(table)
    \o SubSeq([i \in 1..(64 - Len(Flatten(table))) |-> 0], 1, 64 - Len(Flatten(table)))
    \o <<85, 170>>

DataEntry == MbrEntryBytes(0, 131, 8)

Extended(lba_start) == MbrEntryBytes(0, 5, lba_start)

\* The bootable bytes of the sample entries: inactive, active, the ends of
\* the range 0x01..0x7F, and two values above 0x80.
BootableSamples == {0, 128, 1, 126, 127, 129, 255}

\* The tables of the MBR (LBA 0). The first EBR, when there is one, is at
\* LBA 1; an entry that starts at LBA 9 points beyond the image.
MbrTables ==
  {<<>>,
   <<MbrEntryBytes(128, 7, 8), Extended(1)>>,
   <<DataEntry, DataEntry, DataEntry, DataEntry>>,
   <<Extended(1), MbrEntryBytes(0, 15, 1)>>,
   <<DataEntry, Extended(9)>>,
   <<MbrEntryBytes(0, 133, 1), DataEntry>>}
    \cup {<<DataEntry, MbrEntryBytes(b, 131, 8), Extended(1)>> : b \in BootableSamples}

\* The EBRs at LBA 1, 2 and 3; the start of an extended entry of an EBR is
\* relative to LBA 1.
EbrChains ==
  {<<<<DataEntry, Extended(1)>>, <<DataEntry, Extended(2)>>, <<DataEntry>>>>,
   <<<<DataEntry>>, <<>>, <<>>>>,
   <<<<DataEntry, Extended(1)>>, <<DataEntry, Extended(0)>>, <<>>>>,
   <<<<DataEntry, Extended(0)>>, <<>>, <<>>>>,
   <<<<DataEntry, DataEntry, Extended(1)>>, <<DataEntry>>, <<>>>>,
   <<<<Extended(1), Extended(2)>>, <<DataEntry>>, <<DataEntry>>>>,
   <<<<DataEntry, Extended(8)>>, <<>>, <<>>>>,
   <<<<>>, <<>>, <<>>>>,
   <<<<DataEntry, Extended(1)>>, <<>>, <<>>>>}
    \cup {<<<<MbrEntryBytes(b, 131, 8), Extended(1)>>, <<DataEntry>>, <<>>>> : b \in {127, 126}}

MbrImage(table, chain) ==
  BootRecord(table) \o BootRecord(chain[1]) \o BootRecord(chain[2]) \o BootRecord(chain[3])

\* parse_mbr: the root is the default node and parse_sector starts at LBA 0.
InitMbr ==
  /\ build = "release"
  /\ \E table \in MbrTables, chain \in EbrChains : disk = MbrImage(table, chain)
  /\ mbr = [pc |-> "parsing",
            stack |-> <<Call(DefaultNode, TRUE, 0, 0)>>,
            sectors |-> <<0>>]
  /\ dt = Off /\ guid = Off /\ gpt = Off /\ bs = Off /\ mft = Off
  /\ apm = Off /\ pbr = Off

Top == mbr.stack[Len(mbr.stack)]

\* One turn of the loop of parse_sector in the innermost call: read the
\* next entry; an empty or rejected one ends the loop, an extended one
\* starts the call for its boot record, any other becomes a child.
MbrReadEntry ==
  /\ mbr.pc = "parsing"
  /\ ~Top.done
  /\ Top.index < EntriesPerBootRecord
  /\ \E top \in {Top} :
     \E r \in {IF top.image_offset_sector >= Len(disk) \div SECTOR_SIZE
               THEN [ok |-> FALSE]
               ELSE ReadMbrPartitionTableEntry(disk,
                      top.image_offset_sector * SECTOR_SIZE + BOOTSTRAPER_LENGTH
                        + MbrEntrySize * top.index)} :
       IF ~r.ok
       THEN mbr' = [mbr EXCEPT !.pc = "err", !.stack = <<>>]
       ELSE IF MbrEntryIsEmpty(r.entry) \/ BootableRejected(r.entry.bootable)
       THEN mbr' = [mbr EXCEPT !.stack[Len(mbr.stack)].done = TRUE]
       ELSE IF IsExtendedPartition(r.entry)
       THEN \E to \in {NextBootRecord(top.is_first, top.first_ebr_lba, r.entry.lba_start)} :
              IF Len(mbr.stack) >= MaxDepth
              THEN mbr' = [mbr EXCEPT !.pc = "stack overflow", !.stack = <<>>]
              ELSE mbr' = [mbr EXCEPT
                     !.stack = Append(@, Call(NewNode(r.entry, top.image_offset_sector),
                                              FALSE, to.image_offset_sector, to.first_ebr_lba)),
                     !.sectors = Append(@, to.image_offset_sector)]
       ELSE mbr' = [mbr EXCEPT
              !.stack[Len(mbr.stack)].node = AddChild(@, NewNode(r.entry, top.image_offset_sector)),
              !.stack[Len(mbr.stack)].index = @ + 1]
  /\ UNCHANGED frameMbr

\* The loop of the innermost call has ended: parse_sector returns Ok, the
\* caller adds the node as a child and goes on with its next entry;
\* parse_mbr returns the root when the outermost call returns.
MbrReturn ==
  /\ mbr.pc = "parsing"
  /\ Top.done \/ Top.index = EntriesPerBootRecord
  /\ IF Len(mbr.stack) = 1
     THEN mbr' = [pc |-> "returned", stack |-> <<>>, sectors |-> mbr.sectors,
                  root |-> Top.node]
     ELSE \E n \in {Len(mbr.stack) - 1} :
            mbr' = [mbr EXCEPT
              !.stack = [SubSeq(@, 1, n) EXCEPT
                           ![n].node = AddChild(@, Top.node),
                           ![n].index = @ + 1]]
  /\ UNCHANGED frameMbr

NextMbr == MbrReadEntry \/ MbrReturn

\* MbrPartitionTableEntryNode::table_row: the row of the node's entry, an
\* empty row for a node without entry. The cells are kept as the entry and
\* the offset they are formatted from.
NodeTableRow(node) ==
  IF node.partition_table_entry # <<>>
  THEN <<node.partition_table_entry[1], node.image_offset_sectors>>
  ELSE <<>>

\* MbrPartitionTableEntryNode::is_extended_partition.
NodeIsExtendedPartition(node) ==
  node.partition_table_entry # <<>> /\ IsExtendedPartition(node.partition_table_entry[1])

\* print_nodes: the rows added to the table, in the order they are added.
\* children is None exactly when the model's sequence is empty: add_child
\* is the only writer and makes it Some of a non-empty vector.
RECURSIVE PrintNodes(_, _)
PrintNodes(node, is_first) ==
  LET RECURSIVE OfChildren(_)
      OfChildren(k) ==
        IF k > Len(node.children) THEN <<>>
        ELSE (IF NodeIsExtendedPartition(node.children[k]) /\ is_first
              THEN <<NodeTableRow(node.children[k])>> ELSE <<>>)
             \o PrintNodes(node.children[k], FALSE)
             \o OfChildren(k + 1)
  IN IF node.children # <<>> THEN OfChildren(1) ELSE <<NodeTableRow(node)>>

\* display_mbr on the tree parse_mbr returned: the rows under the header.
MbrDisplay ==
  /\ mbr.pc = "returned"
  /\ \E rows \in {PrintNodes(mbr.root, TRUE)} :
       mbr' = [pc |-> "displayed", stack |-> <<>>, sectors |-> mbr.sectors,
               root |-> mbr.root, rows |-> rows]
  /\ UNCHANGED frameMbr

NextDisplay == MbrReadEntry \/ MbrReturn \/ MbrDisplay

\* ------------------------------------------------------------------------
\* MBR: the CHS columns of a table row
\* ------------------------------------------------------------------------
ChsByteSamples == {0, 1, 3, 127, 128, 255}

\* An entry whose row is about to be made with show_chs set: the starting
\* CHS field has any second byte, the other bytes are samples.
InitChs ==
  /\ build = "release"
  /\ disk = <<>>
  /\ \E h \in ChsByteSamples, b \in 0..255, c \in ChsByteSamples, ending \in {<<0, 0, 0>>, <<254, 255, 255>>} :
       mbr = [pc |-> "entry", starting_chs |-> <<h, b, c>>, ending_chs |-> ending]
  /\ dt = Off /\ guid = Off /\ gpt = Off /\ bs = Off /\ mft = Off
  /\ apm = Off /\ pbr = Off

\* MbrPartitionTableEntry::table_row with show_chs: both fields are
\* decoded to (cylinder, head, sector).
ChsTableRow ==
  /\ mbr.pc = "entry"
  /\ mbr' = [mbr EXCEPT !.pc = "row"]
             @@ [starting |-> ParseChs(mbr.starting_chs), ending |-> ParseChs(mbr.ending_chs)]
  /\ UNCHANGED frameMbr

NextChs == ChsTableRow

\* ------------------------------------------------------------------------
\* NTFS: the partition boot record
\* ------------------------------------------------------------------------
BOOT_SIGNATURE == <<85, 170>>

\* The bytes NtfsPartitionBootRecord::read takes from the sector.
NtfsPartitionBootRecordSize == 84

\* 510 (sector size - signature) - 84 (PBR bytes read) = 426 boot code.
BootCodeSize == 426

\* read::<i8>: the byte as a two's complement number.
I8(byte) == IF byte >= 128 THEN byte - 256 ELSE byte

\* impl Readable for NtfsPartitionBootRecord: the fields parse_pbr uses,
\* by their offsets in the sector.
ReadNtfsPartitionBootRecord(stream) ==
  With(ReadBytes(stream, NtfsPartitionBootRecordSize), LAMBDA r :
    IF ~r.ok THEN [ok |-> FALSE]
    ELSE [ok |-> TRUE, stream |-> r.stream,
          oem_id |-> Slice(r.bytes, 3, 8),
          bytes_per_sector |-> LeNat(Slice(r.bytes, 11, 2)),
          sectors_per_cluster |-> r.bytes[14],
          mft_lcn |-> LeNat(Slice(r.bytes, 48, 8)),
          mft_size |-> I8(r.bytes[65])])

IsAsciiWhitespace(byte) == byte \in {9, 10, 11, 12, 13, 32}

\* str::trim on text that has no white space outside ASCII.
Trim(bytes) ==
  LET kept == {i \in 1..Len(bytes) : ~IsAsciiWhitespace(bytes[i])}
  IN IF kept = {} THEN <<>>
     ELSE SubSeq(bytes, CHOOSE i \in kept : \A j \in kept : i <= j,
                        CHOOSE i \in kept : \A j \in kept : i >= j)

\* NtfsPartitionBootRecord::oem_id_str.
OemIdStr(oem_id) ==
  IF ValidUtf8(oem_id) THEN [ok |-> TRUE, text |-> Trim(oem_id)] ELSE [ok |-> FALSE]

Ntfs == <<78, 84, 70, 83>>

\* 2^k, or Huge when that is 2^24 or more.
Pow2Sat(k) == IF k >= 24 THEN Huge ELSE 2 ^ k

\* The record size parse_pbr derives from the code (mft.rs:120-124).  A
\* negative code: 2u32.pow(mft_size.abs() as u32); abs of -128 overflows
\* i8 (a panic in a debug build, -128 again in a release build, which the
\* cast turns into an exponent above 2^31), and 2^k for k >= 32 overflows
\* u32 (a panic in a debug build, 0 in a release build).  A non-negative
\* code: (mft_size as usize * 8 * SECTOR_SIZE) as u32.
MftRecordSize(mft_size, sectors_per_cluster, b) ==
  IF mft_size < 0
  THEN IF mft_size = -128 /\ b = "debug" THEN [kind |-> "panic"]
       ELSE IF -mft_size >= 32
       THEN IF b = "debug" THEN [kind |-> "panic"] ELSE [kind |-> "ok", size |-> 0]
       ELSE [kind |-> "ok", size |-> Pow2Sat(-mft_size)]
  ELSE [kind |-> "ok", size |-> mft_size * 8 * SECTOR_SIZE]

\* parse_pbr.  mft_lcn is below 2^24 in the images of the model, so that
\* mft_lba does not overflow u64.  The outcome carries the record size and
\* the LBA handed to parse_mft.
ParsePbr(image, starting_lba, b) ==
  With(ByteStreamNew(image, SECTOR_SIZE, starting_lba), LAMBDA w :
    IF ~w.ok THEN [kind |-> "err"]
    ELSE With(ReadNtfsPartitionBootRecord(w.stream), LAMBDA partition_boot_record :
      IF ~partition_boot_record.ok THEN [kind |-> "err"]
      ELSE With(OemIdStr(partition_boot_record.oem_id), LAMBDA oem :
        IF ~oem.ok \/ oem.text # Ntfs THEN [kind |-> "panic"]
        ELSE With(ReadBytes(partition_boot_record.stream, BootCodeSize), LAMBDA code :
          IF ~code.ok THEN [kind |-> "err"]
          ELSE With(ReadBytes(code.stream, 2), LAMBDA signature :
            IF ~signature.ok THEN [kind |-> "err"]
            ELSE IF signature.bytes # BOOT_SIGNATURE THEN [kind |-> "panic"]
            ELSE With(MftRecordSize(partition_boot_record.mft_size,
                                    partition_boot_record.sectors_per_cluster, b),
                      LAMBDA mft_size :
              IF mft_size.kind # "ok" THEN [kind |-> "panic"]
              ELSE With(Sat(starting_lba + partition_boot_record.mft_lcn
                                             * partition_boot_record.sectors_per_cluster),
                        LAMBDA mft_lba :
                     [mft_lba |-> mft_lba, mft_size |-> mft_size.size]
                       @@ ParseMft(image, mft_lba, mft_size.size, b))))))))

\* The sector of an NTFS partition boot record.
PbrSector(oem_id, sectors_per_cluster, mft_lcn, mft_size_byte, signature) ==
  <<235, 82, 144>> \o oem_id \o <<0, 2, sectors_per_cluster>> \o Zeros(7) \o <<248>>
    \o Zeros(18) \o LeBytes(64, 8) \o LeBytes(mft_lcn, 8) \o LeBytes(2, 8)
    \o <<mft_size_byte>> \o Zeros(3) \o <<1>> \o Zeros(3) \o Zeros(8) \o Zeros(4)
    \o Zeros(BootCodeSize) \o signature

NtfsOem == <<78, 84, 70, 83, 32, 32, 32, 32>>

\* The slots the $DATA attribute of the MFT of an image allocates.
AllocatedSlots == 3

\* The MFT of an image: the record of $MFT, whose $DATA allocates
\* AllocatedSlots slots, the other slots, and one slot of zeros after the
\* allocation.
MftOf(record_size, slots) ==
  RecordOf(record_size,
           StandardInformationAttribute(StompBytes)
             \o FileNameAttribute(StompBytes, MftName)
             \o DataAttribute(AllocatedSlots * record_size))
    \o Flatten([k \in 1..(AllocatedSlots - 1) |->
                 SlotBytes(slots[((k - 1) % Len(slots)) + 1], record_size)])
    \o Zeros(record_size)

\* A partition that starts at LBA 0: its boot record, the rest of the
\* first cluster, and the MFT in cluster 1.
PbrImage(img) ==
  SubSeq(PbrSector(img.oem_id, img.sectors_per_cluster, 1, img.mft_size_byte, img.signature)
           \o Zeros((img.sectors_per_cluster - 1) * SECTOR_SIZE)
           \o MftOf(img.record_size, img.slots),
         1, img.sectors_per_cluster * SECTOR_SIZE + (AllocatedSlots + 1) * img.record_size)

\* The bytes of the code for the record sizes 512, 1024 and 2048 (-9, -10
\* and -11).
SizeCodeBytes == {247, 246, 245}

SlotFills == {<<"file", "unused">>, <<"file", "name only">>, <<"unused", "file">>}

\* Every value of the code with one and with eight sectors per cluster on
\* an MFT of 1024-byte records; the codes of 512, 1024 and 2048 bytes and
\* the code 1 on an MFT of records of that size; a boot record of another
\* file system and one without the boot signature.
PbrImages ==
  {[oem_id |-> NtfsOem, sectors_per_cluster |-> spc, mft_size_byte |-> byte,
    signature |-> BOOT_SIGNATURE, record_size |-> FirstStride,
    slots |-> <<"file", "unused">>] : spc \in {1, 8}, byte \in 0..255}
  \cup
  {[oem_id |-> NtfsOem, sectors_per_cluster |-> 1, mft_size_byte |-> byte,
    signature |-> BOOT_SIGNATURE, record_size |-> Pow2Sat(-I8(byte)),
    slots |-> slots] : byte \in SizeCodeBytes, slots \in SlotFills}
  \cup
  {[oem_id |-> NtfsOem, sectors_per_cluster |-> spc, mft_size_byte |-> 1,
    signature |-> BOOT_SIGNATURE, record_size |-> 8 * SECTOR_SIZE,
    slots |-> <<"file", "file">>] : spc \in {2, 8}}
  \cup
  {[oem_id |-> oem, sectors_per_cluster |-> 1, mft_size_byte |-> 246,
    signature |-> signature, record_size |-> FirstStride,
    slots |-> <<"file", "unused">>] :
     oem \in {NtfsOem, <<69, 88, 70, 65, 84, 32, 32, 32>>, <<78, 84, 70, 83, 32, 32, 32, 255>>},
     signature \in {BOOT_SIGNATURE, <<0, 0>>}}

InitPbr ==
  /\ build \in Builds
  /\ \E img \in PbrImages :
       /\ disk = PbrImage(img)
       /\ pbr = [pc |-> "start", img |-> img]
  /\ dt = Off /\ guid = Off /\ gpt = Off /\ bs = Off /\ mft = Off
  /\ apm = Off /\ mbr = Off

\* parse_pbr(path, 0).
PbrParse ==
  /\ pbr.pc = "start"
  /\ \E r \in {ParsePbr(disk, 0, build)} :
       pbr' = [pbr EXCEPT !.pc = "returned"] @@ [result |-> r]
  /\ UNCHANGED framePbr

NextPbr == PbrParse

\* ------------------------------------------------------------------------
\* MFT: records with unknown, repeated, named and misplaced attributes
\* ------------------------------------------------------------------------
\* $ATTRIBUTE_LIST, a type parse_mft_file_record does not decode.
TypeAttributeList == <<32, 0, 0, 0>>

\* A lone high surrogate; a valid one-unit name.
UnpairedName == <<55296>>
StreamName == <<115>>

\* A resident attribute whose header carries a name.
NamedResidentAttribute(type, name, body) ==
  PadTo(type \o LeBytes(RoundUp8(24 + 2 * Len(name) + Len(body)), 4) \o <<0, Len(name)>>
          \o LeBytes(24, 2) \o Zeros(4) \o LeBytes(Len(body), 4)
          \o LeBytes(24 + 2 * Len(name), 2) \o <<0, 0>> \o NameBytes(name) \o body,
        RoundUp8(24 + 2 * Len(name) + Len(body)))

\* A non-resident $DATA attribute whose header carries a name.
NamedDataAttribute(name, allocation_size) ==
  PadTo(TypeData \o LeBytes(RoundUp8(72 + 2 * Len(name)), 4) \o <<1, Len(name)>>
          \o LeBytes(64, 2) \o Zeros(4)
          \o Zeros(8) \o LeBytes(63, 8) \o LeBytes(64 + 2 * Len(name), 2) \o Zeros(6)
          \o LeBytes(allocation_size, 8) \o LeBytes(allocation_size, 8)
          \o LeBytes(allocation_size, 8) \o NameBytes(name)
          \o <<49, 64, 85, 79, 1, 0, 0, 0>>,
        RoundUp8(72 + 2 * Len(name)))

\* The 48 bytes of $STANDARD_INFORMATION the code decodes.
StandardInformationBody(time) ==
  time \o time \o time \o time \o LeBytes(32, 4) \o Zeros(12)

\* The bytes of an attribute of an image, by its kind.  The long
\* $STANDARD_INFORMATION has the 72-byte body of NTFS 3; in "si long ff"
\* its owner id, the four bytes after the part the code decodes, is
\* 0xFFFFFFFF.
AttributeBytes(kind, record_size) ==
  CASE kind = "si" -> StandardInformationAttribute(StompBytes)
    [] kind = "si long" ->
         ResidentAttribute(TypeStandardInformation,
                           StandardInformationBody(StompBytes) \o Zeros(24))
    [] kind = "si long ff" ->
         ResidentAttribute(TypeStandardInformation,
                           StandardInformationBody(StompBytes) \o EndMarker \o Zeros(20))
    [] kind = "si named" ->
         NamedResidentAttribute(TypeStandardInformation, StreamName,
                                StandardInformationBody(StompBytes))
    [] kind = "si named bad" ->
         NamedResidentAttribute(TypeStandardInformation, UnpairedName,
                                StandardInformationBody(StompBytes))
    [] kind = "fn" -> FileNameAttribute(StompBytes, NameA)
    [] kind = "fn mft" -> FileNameAttribute(StompBytes, MftName)
    [] kind = "fn long" -> FileNameAttribute(StompBytes, LongName)
    [] kind = "fn bad" -> FileNameAttribute(StompBytes, UnpairedName)
    [] kind = "data" -> DataAttribute(AllocatedSlots * record_size)
    [] kind = "data named" -> NamedDataAttribute(StreamName, AllocatedSlots * record_size)
    [] kind = "data named bad" -> NamedDataAttribute(UnpairedName, AllocatedSlots * record_size)
    [] OTHER -> ResidentAttribute(TypeAttributeList, Zeros(8))

AttributeKinds ==
  {"si", "si long", "si long ff", "si named", "si named bad", "fn", "fn mft", "fn long",
   "fn bad", "data", "data named", "data named bad", "unknown"}

\* The file descriptor of a record whose update sequence, the eight bytes
\* between the descriptor and the first attribute, starts with usn.
FileDescriptorWithUsn(mft_record_size, usn) ==
  SubSeq(FileDescriptorBytes(mft_record_size), 1, MftFileDescriptorSize)
    \o usn \o Zeros(FirstAttribute - MftFileDescriptorSize - Len(usn))

\* A "FILE" record with the given attributes and the end marker after
\* them.
RecordWith(mft_record_size, usn, kinds) ==
  PadTo(FileDescriptorWithUsn(mft_record_size, usn)
          \o Flatten([k \in 1..Len(kinds) |-> AttributeBytes(kinds[k], mft_record_size)])
          \o EndMarker,
        mft_record_size)

\* The attribute lists of record 0, the record of $MFT, which is parsed
\* with ignore_data_attribute = false.
Record0Lists ==
  {<<"si", "fn mft", "data">>,
   <<"si", "fn mft", "fn long", "data">>,
   <<"si", "fn mft", "unknown", "data">>,
   <<"si long", "fn mft", "data">>,
   <<"si long ff", "fn mft", "data">>,
   <<"si named", "fn mft", "data">>,
   <<"si named bad", "fn mft", "data">>,
   <<"si", "fn mft", "data named">>,
   <<"si", "fn mft", "data named bad">>,
   <<"si", "fn bad", "data">>}

\* The attribute lists of slot 1, <<"unused">> for a slot of zeros.
Slot1Lists ==
  {<<"si", "fn">>,
   <<"si", "unknown", "fn">>,
   <<"unknown", "si">>,
   <<"si", "fn", "unknown">>,
   <<"si", "fn", "fn long">>,
   <<"si long ff", "fn">>,
   <<"si", "fn bad">>,
   <<"unused">>}

Slot2Lists == {<<"si", "fn long">>, <<"fn">>, <<"unused">>}

\* The first bytes of the update sequence: a sequence number and its
\* copies, or the value 0xFFFF in both.
UsnSamples == {<<4, 0, 0, 0>>, <<255, 255, 255, 255>>}

SlotWith(mft_record_size, usn, kinds) ==
  IF kinds = <<"unused">> THEN Zeros(mft_record_size)
  ELSE RecordWith(mft_record_size, usn, kinds)

\* An image that starts with its MFT of AllocatedSlots records of
\* FirstStride bytes; the slots after slot 2 are unused.
RecordsImage(img) ==
  SubSeq(RecordWith(FirstStride, img.usn, img.record0)
           \o SlotWith(FirstStride, img.usn, img.slot1)
           \o SlotWith(FirstStride, <<4, 0, 0, 0>>, img.slot2)
           \o Zeros((AllocatedSlots - 2) * FirstStride),
         1, AllocatedSlots * FirstStride)

\* The update sequence of 0xFFFF goes with the plain attribute lists only.
RecordsImages ==
  {[usn |-> <<4, 0, 0, 0>>, record0 |-> r0, slot1 |-> s1, slot2 |-> s2] :
     r0 \in Record0Lists, s1 \in Slot1Lists, s2 \in Slot2Lists}
  \cup
  {[usn |-> <<255, 255, 255, 255>>, record0 |-> <<"si", "fn mft", "data">>,
    slot1 |-> s1, slot2 |-> <<"fn">>] : s1 \in {<<"si", "fn">>, <<"unused">>}}

InitRecords ==
  /\ build = "release"
  /\ \E img \in RecordsImages :
       /\ disk = RecordsImage(img)
       /\ mft = [pc |-> "image", img |-> img]
  /\ dt = Off /\ guid = Off /\ gpt = Off /\ bs = Off /\ apm = Off /\ mbr = Off /\ pbr = Off

\* parse_mft(path, 0, 1024).
RecordsParse ==
  /\ mft.pc = "image"
  /\ \E r \in {ParseMft(disk, 0, FirstStride, build)} :
       mft' = [mft EXCEPT !.pc = "returned"] @@ [result |-> r]
  /\ UNCHANGED <<disk, frameMft>>

NextRecords == RecordsParse

\* ------------------------------------------------------------------------
\* MFT: data runs
\* ------------------------------------------------------------------------
\* The nibbles of the header byte of a data run, past 8 as well.
MaxNibble == 9

\* The seven bytes after the header byte.
RunBytes ==
  {<<1, 2, 3, 4, 5, 6, 7>>, <<128, 129, 130, 131, 132, 133, 134>>,
   <<255, 255, 255, 255, 255, 255, 255>>, <<0, 0, 0, 0, 0, 0, 0>>,
   <<24, 52, 86, 0, 0, 0, 0>>, <<1, 128, 0, 127, 255, 0, 128>>}

\* A stream that stands at a data run.
InitDataRun ==
  /\ build \in Builds
  /\ disk = <<>>
  /\ \E low \in 0..MaxNibble, high \in 0..MaxNibble, bytes \in RunBytes :
       mft = [pc |-> "run",
              stream |-> [reader_pos |-> 8, buffer |-> <<16 * high + low>> \o bytes, position |-> 0]]
  /\ dt = Off /\ guid = Off /\ gpt = Off /\ bs = Off /\ apm = Off /\ mbr = Off /\ pbr = Off

\* stream.read::<DataRun>().
DataRunRead ==
  /\ mft.pc = "run"
  /\ \E r \in {ReadDataRun(mft.stream, build)} :
       mft' = [mft EXCEPT !.pc = "read"] @@ [result |-> r]
  /\ UNCHANGED <<disk, frameMft>>

NextDataRun == DataRunRead

\* ------------------------------------------------------------------------
\* GPT: the name of a partition
\* ------------------------------------------------------------------------
Endians == {"little", "big"}

\* GptPartitionTableEntry::bytes_to_u16, which depends on the byte order of
\* the target the program is built for.
GptBytesToU16(first, second, target_endian) ==
  IF target_endian = "little" THEN 256 * second + first ELSE 256 * first + second

GptNameSize == 72

\* GptPartitionTableEntry::partition_name: every pair of bytes of the
\* field becomes a code unit and String::from_utf16 converts them all.
PartitionName(partition_name, target_endian) ==
  With(SubSeq([k \in 1..(Len(partition_name) \div 2) |->
                 GptBytesToU16(partition_name[2 * k - 1], partition_name[2 * k], target_endian)],
              1, Len(partition_name) \div 2),
       LAMBDA unicode_symbols :
    IF ValidUtf16(unicode_symbols) THEN [ok |-> TRUE, name |-> unicode_symbols]
    ELSE [ok |-> FALSE])

\* The code units of the sample names: NUL, "A", the euro sign and the two
\* halves of a surrogate pair.
NameUnits == {0, 65, 8364, 55357, 56832}

\* The longest sample name before the padding.
MaxNameUnits == 3

\* The name field of an entry: the code units, least significant byte
\* first, and the padding up to 72 bytes.
NameField(units, padding) ==
  SubSeq(NameBytes(units) \o [i \in 1..GptNameSize |-> padding[((i - 1) % 2) + 1]], 1, GptNameSize)

\* An entry whose name is about to be shown; the padding is zeros or what
\* an earlier, longer name has left after the NUL.
InitGptName ==
  /\ build = "release"
  /\ disk = <<>>
  /\ \E units \in [1..MaxNameUnits -> NameUnits], padding \in {<<0, 0>>, <<90, 0>>}, target \in Endians :
       gpt = [pc |-> "entry", target_endian |-> target,
              partition_name |-> NameField(SubSeq(units, 1, MaxNameUnits), padding)]
  /\ dt = Off /\ guid = Off /\ bs = Off /\ mft = Off /\ apm = Off /\ mbr = Off /\ pbr = Off

\* impl Display for GptPartitionTableEntry: the line of the name.
GptShowName ==
  /\ gpt.pc = "entry"
  /\ \E r \in {PartitionName(gpt.partition_name, gpt.target_endian)} :
       gpt' = [gpt EXCEPT !.pc = "shown"] @@ [result |-> r]
  /\ UNCHANGED frameGpt

NextGptName == GptShowName

\* ------------------------------------------------------------------------
\* ByteStream::read_array and the Driver Descriptor Map
\* ------------------------------------------------------------------------

\* The size of a DriverDescriptorEntry on disk: 4 + 2 + 2.
DriverDescriptorEntrySize == 8

\* The size of the fields of a DriverDescriptorMap before its entries:
\* 2 + 2 + 4 + 2 + 2 + 4 + 2.
DriverDescriptorHeaderSize == 18

\* The number of entries of driver_descriptor_map.
DriverDescriptorEntries == 8

\* impl Readable for DriverDescriptorEntry: three big-endian reads.
ReadDriverDescriptorEntry(stream) ==
  With(ReadBytes(stream, 4), LAMBDA a :
    IF ~a.ok THEN [ok |-> FALSE]
    ELSE With(ReadBytes(a.stream, 2), LAMBDA b :
      IF ~b.ok THEN [ok |-> FALSE]
      ELSE With(ReadBytes(b.stream, 2), LAMBDA c :
        IF ~c.ok THEN [ok |-> FALSE]
        ELSE [ok |-> TRUE, stream |-> c.stream,
              value |-> [start_lba |-> BeNat(a.bytes),
                         size_in_sectors |-> BeNat(<<0, 0>> \o b.bytes),
                         sys_type |-> BeNat(<<0, 0>> \o c.bytes)]])))

\* ByteStream::read_array::<T, S> for T = DriverDescriptorEntry, its one
\* instance in the program: the array expression [T::read(self)?; S]
\* evaluates T::read once and copies the value into the S elements.
ReadArray(stream, S) ==
  With(ReadDriverDescriptorEntry(stream), LAMBDA r :
    IF ~r.ok THEN [ok |-> FALSE]
    ELSE [ok |-> TRUE, stream |-> r.stream, value |-> [i \in 1..S |-> r.value]])

\* impl Readable for DriverDescriptorMap.
ReadDriverDescriptorMap(stream) ==
  With(ReadBytes(stream, 2), LAMBDA signature :
    IF ~signature.ok THEN [ok |-> FALSE]
    ELSE With(ReadBytes(signature.stream, DriverDescriptorHeaderSize - 2), LAMBDA h :
      IF ~h.ok THEN [ok |-> FALSE]
      ELSE With(ReadArray(h.stream, DriverDescriptorEntries),
                LAMBDA m :
        IF ~m.ok THEN [ok |-> FALSE]
        ELSE [ok |-> TRUE, stream |-> m.stream,
              value |-> [signature |-> signature.bytes,
                         block_size |-> BeNat(<<0, 0>> \o Slice(h.bytes, 0, 2)),
                         driver_descriptor_count |-> BeNat(<<0, 0>> \o Slice(h.bytes, 14, 2)),
                         driver_descriptor_map |-> m.value]])))

\* Sample entries: start_lba, size_in_sectors and sys_type.
EntrySamples ==
  {<<0, 0, 0, 64, 0, 8, 0, 1>>, <<0, 0, 1, 0, 0, 16, 7, 1>>,
   <<0, 1, 0, 2, 1, 0, 255, 255>>, <<0, 0, 0, 0, 0, 0, 0, 0>>}

\* The sizes of the windows on the image: the whole sector, and windows
\* that end after the first and after the fourth entry.
ArrayWindows == {SECTOR_SIZE, DriverDescriptorHeaderSize + 8, DriverDescriptorHeaderSize + 32}

\* The array lengths of the calls of read_array.
ArraySizes == {1, 2, 3}

\* Block 0 of an APM disk: the first entry, the second, and six more.
DriverDescriptorBlock(first, second, rest) ==
  <<69, 82>> \o <<2, 0>> \o <<0, 0, 0, 8>> \o <<0, 1>> \o <<0, 1>> \o <<0, 0, 0, 0>> \o <<0, 3>>
    \o first \o second \o rest \o rest \o rest \o rest \o rest \o rest
    \o Zeros(SECTOR_SIZE - DriverDescriptorHeaderSize - 64)

InitArray ==
  /\ build = "release"
  /\ \E first \in EntrySamples, second \in EntrySamples, rest \in EntrySamples :
       disk = DriverDescriptorBlock(first, second, rest)
  /\ \E size \in ArrayWindows :
       bs = [pc |-> "open",
             stream |-> [reader_pos |-> size, buffer |-> SubSeq(disk, 1, size), position |-> 0]]
  /\ dt = Off /\ guid = Off /\ gpt = Off /\ mft = Off /\ apm = Off /\ mbr = Off /\ pbr = Off

\* stream.read::<DriverDescriptorMap>() of is_apm_disk.
ArrayReadMap ==
  /\ bs.pc = "open"
  /\ \E r \in {ReadDriverDescriptorMap(bs.stream)} :
       bs' = [pc |-> "read", op |-> "map", size |-> DriverDescriptorEntries,
              from |-> DriverDescriptorHeaderSize, buffer |-> bs.stream.buffer, result |-> r]
  /\ UNCHANGED <<disk, frameBs>>

\* read_array::<DriverDescriptorEntry, S>() on a stream that stands at the
\* first entry.
ArrayReadArray ==
  /\ bs.pc = "open"
  /\ \E S \in ArraySizes :
     \E r \in {ReadArray([bs.stream EXCEPT !.position = DriverDescriptorHeaderSize], S)} :
       bs' = [pc |-> "read", op |-> "read_array", size |-> S,
              from |-> DriverDescriptorHeaderSize, buffer |-> bs.stream.buffer, result |-> r]
  /\ UNCHANGED <<disk, frameBs>>

NextArray == ArrayReadMap \/ ArrayReadArray

SpecDatetime == InitDatetime /\ [][NextDatetime]_vars

\* C7 as stated: every unix timestamp t survives encoding and decoding, and
\* neither direction overflows or wraps.
C7_RoundTripAll ==
  (dt.pc \in {"stored", "decoded", "panic"} /\ dt.origin = "unix")
    => /\ dt.enc.fault = "none"
       /\ dt.pc # "panic"
       /\ dt.pc = "decoded"
            => dt.dec.fault = "none" /\ Timestamp(dt.dec.datetime) = dt.t

\* C7 as amended: every unix timestamp t <= 1833029933770 (the largest t
\* with t * 10^7 + 116444736000000000 < 2^64) is encoded without overflow
\* to exactly t * 10^7 + 116444736000000000, and decoding that value gives
\* back t without underflow.
C7_RoundTripEncodable ==
  (dt.pc \in {"stored", "decoded", "panic"} /\ dt.origin = "unix"
     /\ U64Leq(dt.t, MaxEncodable))
    => /\ dt.enc.fault = "none"
       /\ dt.pc # "panic"
       /\ AddWide(MulSmall(MulSmall(dt.t, 10000), 1000), EpochDiff)
            = dt.enc.value \o <<0, 0, 0>>
       /\ dt.pc = "decoded"
            => dt.dec.fault = "none" /\ Timestamp(dt.dec.datetime) = dt.t

\* The largest encodable timestamp has made the round trip.
C7_Witness ==
  dt.pc = "decoded" /\ dt.origin = "unix" /\ dt.t = MaxEncodable

\* C8 as stated: every stored 64-bit value, those below the epoch difference
\* included, is decoded without unsigned underflow and without abort.
C8_DecodeNeverFaults ==
  (dt.pc \in {"decoded", "panic"} /\ dt.origin = "disk")
    => dt.pc = "decoded" /\ dt.dec.fault = "none"

\* The example of C8: what the bytes 00 48 BC F4 E0 1D D9 01 decode to.
C8_StompExample ==
  (dt.pc = "decoded" /\ dt.origin = "disk" /\ dt.bytes = StompBytes)
    \* 133170516000000000 and 1672578000
    => /\ dt.dec.ole2 = <<18432, 62652, 7648, 473>>
       /\ Timestamp(dt.dec.datetime) = <<33744, 25521, 0, 0>>

SpecGuid == InitGuid /\ [][NextGuid]_vars

\* The two upper-case hex digits of a byte.
ByteHexUpper(b) ==
  <<ToUppercase(HexLower[(b \div 16) + 1]), ToUppercase(HexLower[(b % 16) + 1])>>

\* AAAAAAAA-BBBB-CCCC-DDDD-EEEEEEEEEEEE written byte by byte: A, B and C with
\* their bytes reversed, D and E in stored order.
CanonicalGuid(b) ==
  ByteHexUpper(b[4]) \o ByteHexUpper(b[3]) \o ByteHexUpper(b[2]) \o ByteHexUpper(b[1])
    \o <<"-">> \o ByteHexUpper(b[6]) \o ByteHexUpper(b[5])
    \o <<"-">> \o ByteHexUpper(b[8]) \o ByteHexUpper(b[7])
    \o <<"-">> \o ByteHexUpper(b[9]) \o ByteHexUpper(b[10])
    \o <<"-">> \o ByteHexUpper(b[11]) \o ByteHexUpper(b[12]) \o ByteHexUpper(b[13])
    \o ByteHexUpper(b[14]) \o ByteHexUpper(b[15]) \o ByteHexUpper(b[16])

\* C9: Guid::new(b).to_string() is the 36-character upper-case string
\* AAAAAAAA-BBBB-CCCC-DDDD-EEEEEEEEEEEE with A, B, C little-endian and D, E in
\* stored order, each zero-padded; the bytes of test_guid give
\* C12A7328-F81F-11D2-BA4B-00A0C93EC93B; distinct inputs give distinct strings.
C9_GuidString ==
  guid.pc = "done"
    => /\ Len(guid.sa) = 36
       /\ guid.sa = CanonicalGuid(guid.a)
       /\ guid.sb = CanonicalGuid(guid.b)
       /\ guid.a = TestGuidBytes
            => guid.sa = <<"C", "1", "2", "A", "7", "3", "2", "8", "-",
                           "F", "8", "1", "F", "-", "1", "1", "D", "2", "-",
                           "B", "A", "4", "B", "-",
                           "0", "0", "A", "0", "C", "9", "3", "E", "C", "9", "3", "B">>
       /\ guid.a # guid.b => guid.sa # guid.sb

\* The bytes of test_guid and an identifier that differs from them in its
\* first byte have both been formatted.
C9_Witness ==
  /\ guid.pc = "done"
  /\ guid.a = TestGuidBytes
  /\ guid.b = [TestGuidBytes EXCEPT ![1] = 0]

SpecGpt == InitGpt /\ [][NextGpt]_vars

\* The IEEE 802.3 CRC-32 of the header_size bytes at LBA 1 with bytes 16..19
\* taken as zero.
HeaderCrcOfImage(image) ==
  LET n == GptHeaderSize(image)
  IN CalculateCrc32([i \in 1..n |-> IF i \in 17..20 THEN 0
                                    ELSE image[SECTOR_SIZE + i]])

\* C10 as stated: for every header, whatever header_size it declares, the
\* check returns true exactly when the CRC-32 of the header_size bytes at
\* LBA 1, with bytes 16..19 replaced by zero, equals the stored crc32 field.
C10_HeaderCrcDecides ==
  gpt.pc = "checked"
    => gpt.header_crc =
         [kind |-> "ok",
          value |-> (HeaderCrcOfImage(disk) = U32FromLeBytes(GptHeaderCrc32(disk)))]

\* The check of the usual 92-byte header with its matching CRC: the stored
\* value is the IEEE 802.3 CRC-32 0x783F1512 of those bytes (12 15 3F 78 on
\* disk), and the check accepts it.
C10_KnownAnswer ==
  (gpt.pc = "checked" /\ GptHeaderSize(disk) = 92 /\ gpt.stored = "valid"
     /\ Slice(disk, SECTOR_SIZE + 32, 1) = <<3>>)
    => /\ gpt.header_crc = [kind |-> "ok", value |-> TRUE]
       /\ GptHeaderCrc32(disk) = <<18, 21, 63, 120>>

SpecStream == InitStream /\ [][NextStream]_vars

FromFileOps == {"read_raw_bytes_from_file", "read_raw_sectors_from_file"}

\* C4: a read_raw_bytes_from_file or read_raw_sectors_from_file call leaves
\* the stream as it found it (the file position, the window and the cursor,
\* hence what get_byte_offset and every later read return), whether it
\* succeeds or fails with a short read.
C4_FromFileNeutral ==
  (bs.pc = "open" /\ bs.last.op \in FromFileOps) => bs.stream = bs.last.before

\* The successful calls are neutral.
C4_SuccessNeutral ==
  (bs.pc = "open" /\ bs.last.op \in FromFileOps /\ bs.last.ok)
    => bs.stream = bs.last.before

\* C5: get_byte_offset returns the offset in the image of the first byte of
\* the window plus the position of the cursor in the window.
C5_ByteOffsetInImage ==
  (bs.pc = "open" /\ bs.last.op = "get_byte_offset")
    => bs.last.value = bs.origin + bs.stream.position

\* What get_byte_offset returns instead while the file position is where
\* the constructor left it: that offset plus the size of the window.
C5_DisplacedByWindow ==
  (/\ bs.pc = "open"
   /\ bs.last.op = "get_byte_offset"
   /\ bs.stream.reader_pos = bs.origin + Len(bs.stream.buffer))
    => bs.last.value = bs.origin + Len(bs.stream.buffer) + bs.stream.position

\* The window holds the bytes of the image from bs.origin on.
WindowOfImage ==
  bs.pc = "open"
    => bs.stream.buffer = Slice(disk, bs.origin, Len(bs.stream.buffer))

SpecMft == InitMft /\ [][NextMft]_vars

MftTypeOK ==
  /\ mft.pc \in {"idle", "parsed"}
  /\ Len(mft.runs) <= MaxRuns

\* The step of a run in which timestomp_mft is called.
TimestompStep == mft.pc = "parsed" /\ mft'.pc = "idle"
LastRun == mft.runs[Len(mft.runs)]

\* The decoded records with a $FILE_NAME attribute named n, and the first.
NamedRecords(n) ==
  {i \in 1..Len(mft.records) :
     \E k \in 1..Len(mft.records[i].attributes) :
       /\ mft.records[i].attributes[k].attribute.kind = "FileName"
       /\ mft.records[i].attributes[k].attribute.name = n}

TargetRecord ==
  mft.records[CHOOSE i \in NamedRecords(mft.file_name) :
                \A j \in NamedRecords(mft.file_name) : i <= j]

AttributesOfKind(record, kind) ==
  {k \in 1..Len(record.attributes) : record.attributes[k].attribute.kind = kind}

FirstOfKind(record, kind) ==
  record.attributes[CHOOSE k \in AttributesOfKind(record, kind) :
                      \A j \in AttributesOfKind(record, kind) : k <= j]

\* The target has both attributes; their recorded byte offsets.
TargetComplete ==
  /\ NamedRecords(mft.file_name) # {}
  /\ AttributesOfKind(TargetRecord, "StandardInformation") # {}
  /\ AttributesOfKind(TargetRecord, "FileName") # {}

TargetSi == FirstOfKind(TargetRecord, "StandardInformation").offset
TargetFn == FirstOfKind(TargetRecord, "FileName").offset

\* T * 10_000_000 + 116_444_736_000_000_000, exactly.
ExactOle2(t) == AddWide(Low64(MulSmall(MulSmall(t, 10000), 1000)), EpochDiff)
ExactFits(t) == Fits64(MulSmall(MulSmall(t, 10000), 1000)) /\ Fits64(ExactOle2(t))

\* The image after differs from the image before in the 32 bytes at si and
\* the 32 bytes at fn + 8 only, and each of their eight 8-byte groups
\* holds the little-endian bytes of value.
Stomped(before, after, si, fn, value) ==
  /\ Len(after) >= Max(Len(before), Max(si + 32, fn + 40))
  /\ \A k \in 0..3 :
       /\ Slice(after, si + 8 * k, 8) = U64ToLeBytes(value)
       /\ Slice(after, fn + 8 + 8 * k, 8) = U64ToLeBytes(value)
  /\ \A x \in 0..(Len(before) - 1) :
       (x \notin si..(si + 31) /\ x \notin (fn + 8)..(fn + 39))
         => after[x + 1] = before[x + 1]

C2_MissLeavesImage ==
  [][(TimestompStep /\ NamedRecords(mft.file_name) = {})
       => /\ disk' = disk
          /\ ~mft'.runs[Len(mft'.runs)].opened]_vars

C2_Witness ==
  /\ mft.pc = "idle"
  /\ mft.runs # <<>>
  /\ LastRun.file_name = NameAbsent
  /\ LastRun.outcome = "no record"

\* The attributes of the decoded records.
RecordedAttributes ==
  UNION {{mft.records[i].attributes[k] :
            k \in 1..Len(mft.records[i].attributes)} :
           i \in 1..Len(mft.records)}

\* C3: the byte offset recorded with a decoded attribute is the offset in
\* the image at which its body begins (the one its bytes were read from),
\* not that offset displaced by the size of the record window.
C3_RecordedOffsetIsBodyOffset ==
  \A a \in RecordedAttributes : a.offset = a.at

\* What is recorded: the body offset plus the record size.
C3_RecordedOffsetDisplaced ==
  \A a \in RecordedAttributes : a.offset = a.at + mft.img.record_size

\* The body of a decoded attribute is at `at` in the image: the first
\* timestamp decoded is the eight bytes there (after the parent reference
\* in a $FILE_NAME), and the run header of a $DATA is the byte there.
C3_BodyIsAtTrueOffset ==
  \A a \in RecordedAttributes :
    CASE a.attribute.kind = "StandardInformation" ->
           U64FromLeBytes(Slice(disk, a.at, 8)) = a.attribute.times[1]
      [] a.attribute.kind = "FileName" ->
           /\ U64FromLeBytes(Slice(disk, a.at + 8, 8)) = a.attribute.times[1]
           /\ disk[a.at + 65] = Len(a.attribute.name)
      [] OTHER -> disk[a.at + 1] = 49

\* One run of the command on an image: parse_mft, then timestomp_mft.
TimestompRun(image, file_name, timestamp, b, mft_record_size) ==
  With(ParseMft(image, 0, mft_record_size, b), LAMBDA p :
    IF p.kind # "ok" THEN image
    ELSE TimestompMft(image, p.records, file_name, timestamp, b).image)

\* C6: after timestomp(N, T1) and then timestomp(N, T2), each run on the
\* records decoded from the image as it stands, the image is the one that
\* timestomp(N, T2) alone gives; with T1 = T2, twice is the same as once.
C6_LastWriterWins ==
  (/\ mft.pc = "idle"
   /\ Len(mft.runs) = 2
   /\ mft.runs[1].file_name = mft.runs[2].file_name)
    => With(MftImage(mft.img), LAMBDA image :
         disk = TimestompRun(image, mft.runs[2].file_name,
                             mft.runs[2].timestamp, build,
                             mft.img.record_size))

\* The same for timestamps whose OLE2 value fits 64 bits: it fails as well,
\* the first run having written into the record after the target.
C6_LastWriterWinsEncodable ==
  (/\ mft.pc = "idle"
   /\ Len(mft.runs) = 2
   /\ mft.runs[1].file_name = mft.runs[2].file_name
   /\ U64Leq(mft.runs[1].timestamp, MaxEncodable)
   /\ U64Leq(mft.runs[2].timestamp, MaxEncodable))
    => With(MftImage(mft.img), LAMBDA image :
         disk = TimestompRun(image, mft.runs[2].file_name,
                             mft.runs[2].timestamp, build,
                             mft.img.record_size))

\* The same with T1 = T2 only.
C6_Idempotent ==
  (/\ mft.pc = "idle"
   /\ Len(mft.runs) = 2
   /\ mft.runs[1].file_name = mft.runs[2].file_name
   /\ mft.runs[1].timestamp = mft.runs[2].timestamp)
    => With(MftImage(mft.img), LAMBDA image :
         disk = TimestompRun(image, mft.runs[2].file_name,
                             mft.runs[2].timestamp, build,
                             mft.img.record_size))

\* C11: the checksum compared with crc32_partition_entries is computed
\* over exactly number_partition_entries * size_single_partition_entry
\* bytes, for every header (also when the product is not a multiple of 512
\* or is below 512), and the product does not overflow 32 bits.
C11_CrcOverDeclaredBytes ==
  gpt.pc = "returned"
    => /\ gpt.result.kind # "panic"
       /\ gpt.result.kind = "ok" => gpt.result.crc_len = ArrayBytes(disk)

\* What holds instead: the checksum is computed over whole sectors, as
\* many as the low 32 bits of the product hold.
C11_CrcOverWholeSectors ==
  (gpt.pc = "returned" /\ gpt.result.kind = "ok")
    => /\ gpt.result.crc_len = gpt.result.number_of_sectors * SECTOR_SIZE
       /\ ArrayBytes(disk) < Huge
            => gpt.result.number_of_sectors = ArrayBytes(disk) \div SECTOR_SIZE

\* What a caller of parse_gpt can observe of the finished run: how it
\* ended, what it printed and what it returned.
GptObserved ==
  IF gpt.pc = "checked"
  THEN [kind |-> gpt.header_crc.kind, printed |-> GptPrinted(disk)]
  ELSE IF gpt.result.kind # "ok"
  THEN [kind |-> gpt.result.kind, printed |-> GptPrinted(disk)]
  ELSE [kind |-> "ok", printed |-> GptPrinted(disk), entries |-> gpt.result.entries]

\* One of the two comparisons of the run found a mismatch.
GptMismatch ==
  /\ gpt.pc = "returned"
  /\ gpt.result.kind = "ok"
  /\ ~gpt.header_crc.value \/ ~gpt.result.entries_crc

\* The image with both CRC fields replaced by the values the comparisons
\* of parse_gpt accept (the entry-array CRC first: the field is part of the
\* header).
WithMatchingCrcs(image, number_of_sectors) ==
  With(U32ToLeBytes(CalculateCrc32(
         Slice(image, GptStartingLba(image) * SECTOR_SIZE, number_of_sectors * SECTOR_SIZE))),
       LAMBDA e :
    With(SubSeq([i \in 1..Len(image) |->
                   IF i - SECTOR_SIZE \in 89..92 THEN e[i - SECTOR_SIZE - 88]
                   ELSE IF i - SECTOR_SIZE \in 17..20 THEN 0 ELSE image[i]], 1, Len(image)),
         LAMBDA zeroed :
      With(U32ToLeBytes(CalculateCrc32(Slice(zeroed, SECTOR_SIZE, GptHeaderSize(image)))),
           LAMBDA h :
        SubSeq([i \in 1..Len(image) |->
                  IF i - SECTOR_SIZE \in 17..20 THEN h[i - SECTOR_SIZE - 16]
                  ELSE zeroed[i]], 1, Len(image)))))

\* C12: when the header CRC or the entry-array CRC does not match,
\* parse_gpt records the mismatch (the run can be told from the run on the
\* same image with matching CRC fields), returns the same entries as that
\* run and does not return an error.
C12_MismatchRecorded ==
  GptMismatch
    => With(ParseGpt(WithMatchingCrcs(disk, gpt.result.number_of_sectors), gpt.window, build),
            LAMBDA matching :
         /\ matching.kind = "ok"
         /\ GptObserved.kind = "ok"
         /\ GptObserved.entries = matching.entries
         /\ GptObserved # matching)

\* What holds of a run that found a mismatch: it returns the entries of
\* the run on the image with matching CRC fields.
C12_MismatchKeepsEntries ==
  GptMismatch
    => With(ParseGpt(WithMatchingCrcs(disk, gpt.result.number_of_sectors), gpt.window, build),
            LAMBDA matching :
         /\ matching.kind = "ok"
         /\ GptObserved.kind = "ok"
         /\ GptObserved.entries = matching.entries)

\* The entry at byte offset `at` of the image has a byte that is not zero.
UsedAt(image, at) == \E i \in 1..GptEntrySize : image[at + i] # 0

\* The offsets of the maximal run of used entries at the start of a sector
\* (four entries of 128 bytes to the sector).
LeadingRun(image, lba) ==
  LET run == {j \in 0..3 : \A i \in 0..j : UsedAt(image, lba * SECTOR_SIZE + i * GptEntrySize)}
  IN SubSeq([j \in 1..4 |-> lba * SECTOR_SIZE + (j - 1) * GptEntrySize], 1, Cardinality(run))

RECURSIVE LeadingRuns(_, _, _)
LeadingRuns(image, lba, end) ==
  IF lba >= end THEN <<>> ELSE LeadingRun(image, lba) \o LeadingRuns(image, lba + 1, end)

\* The header declares whole sectors of entries, all of them in the image.
WholeSectorsInImage ==
  /\ ArrayBytes(disk) % SECTOR_SIZE = 0
  /\ GptStartingLba(disk) * SECTOR_SIZE + ArrayBytes(disk) <= Len(disk)

\* C13: parse_gpt returns, for the sectors of the entry array in increasing
\* LBA order, the maximal run of used entries at the start of each sector,
\* in on-disk order; a sector of four used entries contributes the four
\* without error and the enumeration goes on with the next sector.
C13_LeadingRunsInOrder ==
  (gpt.pc = "returned" /\ WholeSectorsInImage)
    => /\ gpt.result.kind = "ok"
       /\ [j \in DOMAIN gpt.result.entries |-> gpt.result.entries[j].at]
            = LeadingRuns(disk, GptStartingLba(disk),
                          GptStartingLba(disk) + ArrayBytes(disk) \div SECTOR_SIZE)

\* What holds of every returned entry: it is not empty.
C13_NoEmptyEntryReturned ==
  (gpt.pc = "returned" /\ gpt.result.kind = "ok")
    => \A j \in DOMAIN gpt.result.entries : UsedAt(disk, gpt.result.entries[j].at)

SpecApm == InitApm /\ [][NextApm]_vars

\* The two signature bytes stored at the start of sector i.
SignatureAt(image, i) == Slice(image, i * SECTOR_SIZE, 2)

\* The sectors from LBA 1 on that hold a whole entry whose signature is not
\* "PM", within the range of the loop.
NonPmSectors(image) ==
  {i \in 1..(ApmRangeEnd - 1) :
     i * SECTOR_SIZE + ApmEntrySize <= Len(image) /\ SignatureAt(image, i) # PmSignature}

FirstNonPm(image) == CHOOSE i \in NonPmSectors(image) : \A k \in NonPmSectors(image) : i <= k

\* The name and the type of every entry up to sector i are text.
TextUpTo(image, i) ==
  \A k \in 1..i : /\ ValidUtf8(Slice(image, k * SECTOR_SIZE + 16, 32))
                        /\ ValidUtf8(Slice(image, k * SECTOR_SIZE + 48, 32))

\* C14: parse_apm reads the entries at LBA 1, 2, ... in increasing order,
\* stops at the first entry whose signature is not "PM", whatever the two
\* bytes are, returns exactly the entries before it in on-disk order, and
\* never reads a sector beyond LBA 63.
C14_StopsAtFirstNonPm ==
  (apm.pc # "loop" /\ NonPmSectors(disk) # {} /\ TextUpTo(disk, FirstNonPm(disk)))
    => /\ apm.pc = "returned"
       /\ apm.read = [k \in 1..FirstNonPm(disk) |-> k]
       /\ [k \in DOMAIN apm.partition_tables |-> apm.partition_tables[k].lba]
            = [k \in 1..(FirstNonPm(disk) - 1) |-> k]
       /\ \A k \in DOMAIN apm.read : apm.read[k] <= ApmRangeEnd

\* What holds whatever the bytes are: the sectors are read in increasing
\* order from LBA 1, none beyond LBA 63, and the entries returned are "PM"
\* entries in on-disk order.
C14_ReadsInOrderUpTo63 ==
  /\ \A k \in DOMAIN apm.read : apm.read[k] = k /\ k <= ApmRangeEnd
  /\ \A k \in DOMAIN apm.partition_tables :
       /\ apm.partition_tables[k].lba = k
       /\ SignatureAt(disk, k) = PmSignature

SpecMbr == InitMbr /\ [][NextMbr]_vars

\* The nodes of a tree, the root included.
RECURSIVE Nodes(_)
Nodes(node) == {node} \cup UNION {Nodes(node.children[i]) : i \in 1..Len(node.children)}

HasEntry(node) == node.partition_table_entry # <<>>

EntryOf(node) == node.partition_table_entry[1]

\* C15 as stated: parse_sector rejects every entry whose bootable byte is
\* in 0x01..0x7F, so no node of a returned tree holds such an entry.
C15_InvalidBootableRejected ==
  mbr.pc = "returned" =>
    \A n \in Nodes(mbr.root) : HasEntry(n) => EntryOf(n).bootable \notin 1..127

\* What does hold: the bytes 0x01..0x7E are rejected, and a rejection ends
\* the loop of the call without an error and keeps the children the call
\* has added.
C15_RejectsUpTo7E ==
  /\ mbr.pc = "returned" =>
       \A n \in Nodes(mbr.root) : HasEntry(n) => EntryOf(n).bootable \notin 1..126
  /\ mbr.pc = "parsing" /\ Top.done =>
       /\ Top.index < EntriesPerBootRecord
       /\ Len(Top.node.children) = Top.index

\* C16 as stated: in a returned tree the root has at most four children and
\* an extended node has at most one data child and at most one extended
\* child.
DataChildren(node) ==
  {i \in 1..Len(node.children) : EntryOf(node.children[i]).partition_type \notin {5, 15}}

ExtendedChildren(node) ==
  {i \in 1..Len(node.children) : EntryOf(node.children[i]).partition_type \in {5, 15}}

SpecMbrLive == SpecMbr /\ WF_vars(NextMbr)

\* The boot records that the extended entries of the boot record at LBA
\* c.lba point to: c.first is the LBA of the first EBR, 0 in the MBR.
PointedTo(image, c) ==
  {[lba |-> (IF c.in_mbr THEN 0 ELSE c.first)
              + LeNat(Slice(image, c.lba * SECTOR_SIZE + BOOTSTRAPER_LENGTH + 16 * k + 8, 4)),
    first |-> IF c.in_mbr
              THEN LeNat(Slice(image, c.lba * SECTOR_SIZE + BOOTSTRAPER_LENGTH + 16 * k + 8, 4))
              ELSE c.first,
    in_mbr |-> FALSE] :
     k \in {j \in 0..3 : image[c.lba * SECTOR_SIZE + BOOTSTRAPER_LENGTH + 16 * j + 5] \in {5, 15}}}

\* Every boot record reached within `steps` links from the given ones lies
\* in the image, and no chain of links is longer than `steps`.
RECURSIVE ChainsEnd(_, _, _)
ChainsEnd(image, records, steps) ==
  \/ records = {}
  \/ /\ steps > 0
     /\ \A c \in records : c.lba < Len(image) \div SECTOR_SIZE
     /\ ChainsEnd(image, UNION {PointedTo(image, c) : c \in records}, steps - 1)

\* Each boot record is readable and the EBR chain is acyclic and finite: a
\* chain that visits more boot records than the image has sectors repeats
\* one.
WellFormedImage(image) ==
  ChainsEnd(image, {[lba |-> 0, first |-> 0, in_mbr |-> TRUE]}, Len(image) \div SECTOR_SIZE)

\* The number of nodes of a tree, or of a sequence of trees, that hold an
\* extended entry.
RECURSIVE CountExtended(_)
RECURSIVE CountExtendedIn(_)
CountExtended(node) ==
  (IF HasEntry(node) /\ EntryOf(node).partition_type \in {5, 15} THEN 1 ELSE 0)
    + CountExtendedIn(node.children)

CountExtendedIn(nodes) ==
  IF nodes = <<>> THEN 0 ELSE CountExtended(Head(nodes)) + CountExtendedIn(Tail(nodes))

\* C17: on a well-formed image parse_mbr terminates and returns a tree, and
\* parse_sector has descended once for each extended entry of the tree; a
\* call whose boot record has no extended entry descends no further.
C17_Terminates ==
  /\ (mbr.pc = "parsing" /\ WellFormedImage(disk)) ~> (mbr.pc = "returned")
  /\ [](mbr.pc = "returned" =>
          Len(mbr.sectors) = 1 + CountExtended(mbr.root))
  /\ [](WellFormedImage(disk) => mbr.pc \in {"parsing", "returned"})

\* A well-formed image with a chain of three EBRs, parsed to the end.
C17_Witness ==
  /\ mbr.pc = "returned"
  /\ WellFormedImage(disk)
  /\ mbr.sectors = <<0, 1, 2, 3>>

SpecChs == InitChs /\ [][NextChs]_vars

\* The decoded triple of a CHS field, stated with arithmetic: the head is
\* the first byte, the sector the low six bits of the second byte, the
\* cylinder the two high bits of the second byte above the third byte.
Decoded(chs, triple) ==
  /\ triple[2] = chs[1]
  /\ triple[3] = chs[2] % 64
  /\ triple[1] = (chs[2] \div 64) * 256 + chs[3]
  /\ triple[3] \in 0..63
  /\ triple[1] \in 0..1023

\* C20: for every CHS field the head is chs[0], the sector chs[1] & 0x3F and
\* the cylinder ((chs[1] & 0xC0) << 2) | chs[2], so the sector is in 0..63
\* and the cylinder in 0..1023; [0x01, 0xC2, 0x03] gives head 1, sector 2,
\* cylinder 771.
C20_ChsDecode ==
  mbr.pc = "row" =>
    /\ Decoded(mbr.starting_chs, mbr.starting)
    /\ Decoded(mbr.ending_chs, mbr.ending)
    /\ mbr.starting_chs = <<1, 194, 3>> => mbr.starting = <<771, 1, 2>>

\* The row of the entry whose starting CHS field is [0x01, 0xC2, 0x03].
C20_Witness ==
  /\ mbr.pc = "row"
  /\ mbr.starting_chs = <<1, 194, 3>>
  /\ mbr.starting = <<771, 1, 2>>
  /\ mbr.ending = <<1023, 254, 63>>

SpecPbr == InitPbr /\ [][NextPbr]_vars

PbrCode == I8(pbr.img.mft_size_byte)

\* parse_pbr has read an NTFS boot record with the boot signature.
PbrAccepted ==
  /\ pbr.pc = "returned"
  /\ pbr.img.oem_id = NtfsOem
  /\ pbr.img.signature = BOOT_SIGNATURE

\* C19 as stated: for every code whose result fits u32, parse_pbr derives
\* 2^|code| from a negative code and code * sectors_per_cluster * 512 from
\* a non-negative one, without an overflow or an abort.
C19_RecordSizeFromCode ==
  PbrAccepted /\ PbrCode >= -31 =>
    /\ "mft_size" \in DOMAIN pbr.result
    /\ pbr.result.mft_size =
         IF PbrCode < 0 THEN Pow2Sat(-PbrCode)
         ELSE PbrCode * pbr.img.sectors_per_cluster * 512

\* What does hold: the claim for negative codes, for the code 0 and for
\* eight sectors per cluster; any other non-negative code gives
\* code * 4096.
C19_RecordSizeWithEightSectors ==
  PbrAccepted /\ PbrCode >= -31 =>
    /\ "mft_size" \in DOMAIN pbr.result
    /\ PbrCode < 0 => pbr.result.mft_size = Pow2Sat(-PbrCode)
    /\ PbrCode >= 0 => pbr.result.mft_size = PbrCode * 4096

\* ceil(a / b).
CeilDiv(a, b) == (a + b - 1) \div b

\* The slots after record 0 of an MFT at byte offset start whose $DATA
\* allocates allocation bytes, in increasing order.
SlotsAfterRecord0(start, allocation, mft_record_size) ==
  SubSeq([k \in 1..(CeilDiv(allocation, mft_record_size) - 1) |-> start + k * mft_record_size],
         1, CeilDiv(allocation, mft_record_size) - 1)

PbrAllocation == AllocatedSlots * pbr.img.record_size

\* C18 as stated: after record 0 parse_mft visits exactly the slots at
\* mft_byte_offset + k * mft_record_size below the end of the allocation,
\* in increasing k, and so at most ceil(file_allocation_size /
\* mft_record_size) slots in all, whatever mft_record_size is.
C18_VisitsTheSlots ==
  PbrAccepted /\ pbr.result.kind = "ok" =>
    /\ pbr.result.visited =
         SlotsAfterRecord0(pbr.result.mft_lba * SECTOR_SIZE, PbrAllocation, pbr.result.mft_size)
    /\ 1 + Len(pbr.result.visited) <= CeilDiv(PbrAllocation, pbr.result.mft_size)

\* What does hold: the claim for records of 1024 bytes.
C18_VisitsTheSlotsOf1024 ==
  PbrAccepted /\ pbr.result.kind = "ok" /\ pbr.result.mft_size = 1024 =>
    /\ pbr.result.visited =
         SlotsAfterRecord0(pbr.result.mft_lba * SECTOR_SIZE, PbrAllocation, pbr.result.mft_size)
    /\ 1 + Len(pbr.result.visited) <= CeilDiv(PbrAllocation, pbr.result.mft_size)

SpecRecords == InitRecords /\ [][NextRecords]_vars

NotUnknown(kind) == kind # "unknown"

\* The image without its attributes of unknown type, and what parse_mft
\* returns for it.
CleanImage == [mft.img EXCEPT !.record0 = SelectSeq(@, NotUnknown), !.slot1 = SelectSeq(@, NotUnknown)]

CleanResult == ParseMft(RecordsImage(CleanImage), 0, FirstStride, build)

HasUnknown(kinds) == \E k \in 1..Len(kinds) : kinds[k] = "unknown"

\* The number of attributes before the first one of unknown type.
BeforeUnknown(kinds) == (CHOOSE k \in 1..Len(kinds) : kinds[k] = "unknown" /\ \A j \in 1..(k - 1) : kinds[j] # "unknown") - 1

\* The records at the places other than those in skip.
Except(records, skip) ==
  LET kept == {i \in 1..Len(records) : i \notin skip}
      nth(n) == CHOOSE i \in kept : Cardinality({j \in kept : j < i}) = n - 1
  IN SubSeq([n \in 1..Cardinality(kept) |-> records[nth(n)]], 1, Cardinality(kept))

\* The places in the returned records of the records that hold an unknown
\* attribute.
UnknownPlaces ==
  (IF HasUnknown(mft.img.record0) THEN {1} ELSE {})
    \cup (IF HasUnknown(mft.img.slot1) THEN {2} ELSE {})

MalformedNameKinds == {"si named bad", "fn bad", "data named bad"}

HasMalformedName(kinds) == \E k \in 1..Len(kinds) : kinds[k] \in MalformedNameKinds

\* C22 as stated: a malformed UTF-16 name in a $FILE_NAME body or in the
\* header of a named attribute makes parse_mft_file_record return an
\* error; it neither aborts nor puts another name in its place.
C22_MalformedNameIsError ==
  mft.pc = "returned" /\ HasMalformedName(mft.img.record0) => mft.result.kind = "err"

\* What happens instead: the name of a $FILE_NAME and of a resident header
\* aborts, and the name of a non-resident header is replaced by "".
C22_MalformedNameAbortsOrIsEmpty ==
  mft.pc = "returned" /\ HasMalformedName(mft.img.record0) =>
    IF \E k \in 1..Len(mft.img.record0) : mft.img.record0[k] = "data named bad"
    THEN IF HasMalformedName(mft.img.slot1) THEN mft.result.kind = "panic"
         ELSE /\ mft.result.kind = "ok"
              /\ mft.result.records[1].attributes[3].header.attribute_name = <<>>
    ELSE mft.result.kind = "panic"

\* The attribute kinds that are decoded and recorded when
\* ignore_data_attribute is false, and the lists of them in which no type
\* but $DATA is repeated.
DecodedKinds == {"si", "si long", "si long ff", "si named", "fn mft", "data", "data named"}

Decodable(kinds) ==
  /\ \A k \in 1..Len(kinds) : kinds[k] \in DecodedKinds
  /\ Cardinality({k \in 1..Len(kinds) : kinds[k] = "fn mft"}) <= 1
  /\ Cardinality({k \in 1..Len(kinds) : kinds[k] \in {"si", "si long", "si long ff", "si named"}}) <= 1

\* C23 as stated: the terminator test before the k-th attribute reads the
\* four bytes at the start of the k-th attribute, so the iteration over
\* record 0 ends at the end marker that follows its last attribute and
\* every attribute before it is recorded, whatever bytes the header and
\* the attributes hold.
C23_TerminatorAtAttributeStart ==
  mft.pc = "returned" /\ Decodable(mft.img.record0) =>
    /\ mft.result.kind \in {"ok", "panic"}
    /\ mft.result.kind = "ok" => Len(mft.result.records[1].attributes) = Len(mft.img.record0)

\* What does hold: the same when neither the update sequence nor the bytes
\* after the decoded part of an attribute hold 0xFFFFFFFF where the cursor
\* stands.
C23_TerminatorAtCursor ==
  mft.pc = "returned" /\ Decodable(mft.img.record0)
    /\ mft.img.usn # EndMarker
    /\ (\A k \in 1..Len(mft.img.record0) : mft.img.record0[k] # "si long ff") =>
    /\ mft.result.kind \in {"ok", "panic"}
    /\ mft.result.kind = "ok" => Len(mft.result.records[1].attributes) = Len(mft.img.record0)

\* Record 0 holds two $FILE_NAME attributes and a $DATA attribute after
\* them.
TwoFileNames == mft.img.record0 = <<"si", "fn mft", "fn long", "data">> /\ mft.img.usn # EndMarker

\* The kinds of the attributes recorded for a record.
KindsOf(record) ==
  SubSeq([k \in 1..Len(record.attributes) |-> record.attributes[k].attribute.kind],
         1, Len(record.attributes))

\* C25 as stated: of two $FILE_NAME attributes only the first is recorded,
\* the second is skipped, and the $DATA attribute after it is decoded and
\* recorded when ignore_data_attribute is false.
C25_SecondFileNameSkipped ==
  mft.pc = "returned" /\ TwoFileNames =>
    /\ mft.result.kind \in {"ok", "panic"}
    /\ mft.result.kind = "ok" =>
         /\ KindsOf(mft.result.records[1]) = <<"StandardInformation", "FileName", "Data">>
         /\ mft.result.records[1].attributes[2].attribute.name = MftName

\* What happens instead: the second $FILE_NAME ends the attributes of the
\* record, so its $DATA is not recorded and no slot is visited.
C25_SecondFileNameEndsRecord ==
  mft.pc = "returned" /\ TwoFileNames =>
    /\ mft.result.kind = "ok"
    /\ KindsOf(mft.result.records[1]) = <<"StandardInformation", "FileName">>
    /\ mft.result.records[1].attributes[2].attribute.name = MftName
    /\ mft.result.visited = <<>>

SpecDataRun == InitDataRun /\ [][NextDataRun]_vars

RunLow == mft.stream.buffer[1] % 16

RunHigh == mft.stream.buffer[1] \div 16

\* The eight bytes, least significant first, of the number whose first n
\* bytes are those of the run from place `from` on and whose other bytes
\* are fill.
RunValue(from, n, fill) ==
  SubSeq([i \in 1..8 |-> IF i <= n THEN mft.stream.buffer[from + i] ELSE fill], 1, 8)

\* C26 as stated: for a header with low nibble L in 1..8 and high nibble H
\* in 0..8 the length is the unsigned value of the next L bytes and the
\* offset the two's complement value of the H bytes after them, sign
\* extended to 64 bits and 0 when H = 0, with no index, shift or
\* subtraction out of range.
C26_DataRunDecoded ==
  mft.pc = "read" /\ RunLow \in 1..8 /\ RunHigh \in 0..8 =>
    /\ mft.result.kind = "ok"
    /\ RunLow + RunHigh <= 7 =>
         /\ mft.result.attribute.length = RunValue(1, RunLow, 0)
         /\ mft.result.attribute.offset =
              RunValue(1 + RunLow, RunHigh,
                       IF RunHigh > 0 /\ mft.stream.buffer[1 + RunLow + RunHigh] >= 128
                       THEN 255 ELSE 0)

\* What does hold: the claim for runs of at most eight bytes with one
\* offset byte or more whose offset is not negative; and for no offset
\* byte in a build without overflow checks.
C26_DataRunNotNegative ==
  mft.pc = "read" /\ RunLow \in 1..8 /\ RunHigh \in 0..8 /\ RunLow + RunHigh <= 7
    /\ (RunHigh = 0 => build = "release")
    /\ (RunHigh > 0 => mft.stream.buffer[1 + RunLow + RunHigh] < 128) =>
    /\ mft.result.kind = "ok"
    /\ mft.result.attribute.length = RunValue(1, RunLow, 0)
    /\ mft.result.attribute.offset = RunValue(1 + RunLow, RunHigh, 0)

SpecGptName == InitGptName /\ [][NextGptName]_vars

\* The code units of the name field, least significant byte first.
FieldUnits == Utf16Units(gpt.partition_name)

\* The units of the field before its first NUL.
BeforeNul(units) ==
  SubSeq(units, 1, Cardinality({k \in 1..Len(units) : \A j \in 1..k : units[j] # 0}))

\* C27 as stated: the decoded name of an entry is the code units of its
\* name field before the first 0x0000; the units at or after it never
\* appear in the name.
C27_NameEndsAtNul ==
  gpt.pc = "shown" /\ gpt.result.ok => gpt.result.name = BeforeNul(FieldUnits)

\* What does hold on a little-endian target: the name is all 36 code
\* units of the field, NULs and padding included.
C27_NameIsWholeField ==
  gpt.pc = "shown" /\ gpt.result.ok /\ gpt.target_endian = "little" =>
    /\ gpt.result.name = FieldUnits
    /\ Len(gpt.result.name) = 36

\* The call i of the stack was made for the extended entry of its node,
\* found by the call below it: from the MBR it reads the boot record at
\* the entry's starting_lba s and passes s on as first_ebr_lba; from an
\* EBR of a chain whose first EBR is at f it reads at f + s and passes f
\* on.
CalledAsClaimed(i) ==
  LET call == mbr.stack[i]
      caller == mbr.stack[i - 1]
      s == EntryOf(call.node).lba_start
  IN /\ EntryOf(call.node).partition_type \in {5, 15}
     /\ ~call.is_first
     /\ call.node.image_offset_sectors = caller.image_offset_sector
     /\ IF caller.is_first
        THEN call.image_offset_sector = s /\ call.first_ebr_lba = s
        ELSE /\ call.image_offset_sector = caller.first_ebr_lba + s
             /\ call.first_ebr_lba = caller.first_ebr_lba

\* Every entry a call has recorded carries the LBA of the boot record the
\* call reads.
RecordedAtItsBootRecord(call) ==
  \A k \in 1..Len(call.node.children) :
    call.node.children[k].image_offset_sectors = call.image_offset_sector

\* In a tree, the children of the node of a boot record read at LBA e
\* carry e, and the children of an extended node among them carry the LBA
\* its entry leads to.
RECURSIVE OffsetsAsClaimed(_, _, _, _)
OffsetsAsClaimed(node, e, f, in_mbr) ==
  \A k \in 1..Len(node.children) :
    LET child == node.children[k]
        s == EntryOf(child).lba_start
    IN /\ child.image_offset_sectors = e
       /\ OffsetsAsClaimed(child, IF in_mbr THEN s ELSE f + s, IF in_mbr THEN s ELSE f, FALSE)

C28_NoSectorReadAgain ==
  /\ mbr.pc # "stack overflow"
  /\ mbr.pc = "parsing" =>
       \A i, j \in 1..Len(mbr.stack) :
         i < j => mbr.stack[i].image_offset_sector # mbr.stack[j].image_offset_sector

\* What the code does on an image with an extended entry that leads back
\* to a boot record being read: the same boot record is read by call
\* after call until the stack is exhausted; parse_mbr returns on the
\* images without such an entry.
C28_CycleExhaustsTheStack ==
  /\ mbr.pc = "stack overflow" => ~WellFormedImage(disk)
  /\ mbr.pc = "parsing" =>
       \A i, j \in 1..Len(mbr.stack) :
         (i < j /\ mbr.stack[i].image_offset_sector = mbr.stack[j].image_offset_sector)
           => ~WellFormedImage(disk)

SpecDisplay == InitMbr /\ [][NextDisplay]_vars

\* The rows the flattening is said to give: one for each data partition
\* and one for each extended entry of the MBR, in the order of the disk.
RECURSIVE ClaimedRows(_, _)
ClaimedRows(node, in_mbr) ==
  LET RECURSIVE OfChildren(_)
      OfChildren(k) ==
        IF k > Len(node.children) THEN <<>>
        ELSE (IF NodeIsExtendedPartition(node.children[k])
              THEN (IF in_mbr THEN <<NodeTableRow(node.children[k])>> ELSE <<>>)
                   \o ClaimedRows(node.children[k], FALSE)
              ELSE <<NodeTableRow(node.children[k])>>)
             \o OfChildren(k + 1)
  IN OfChildren(1)

\* C29: print_nodes emits one row for each data partition and one for
\* each extended entry of the primary MBR, in on-disk order and none
\* twice; an extended primary entry with an empty EBR gives a single row
\* and a root without children gives no row.
C29_OneRowEach ==
  mbr.pc = "displayed" => mbr.rows = ClaimedRows(mbr.root, TRUE)

\* What the code gives: the claimed rows when the root and every extended
\* node have children; a node without children always adds its own row,
\* so a root without children adds an empty row and an extended entry
\* with an empty boot record one row more than claimed.
C29_RowsWhenNothingIsEmpty ==
  mbr.pc = "displayed" =>
    /\ (/\ mbr.root.children # <<>>
        /\ \A n \in Nodes(mbr.root) : NodeIsExtendedPartition(n) => n.children # <<>>)
         => mbr.rows = ClaimedRows(mbr.root, TRUE)
    /\ mbr.root.children = <<>> => mbr.rows = <<<<>>>>
    /\ \A k \in 1..Len(mbr.root.children) :
         LET child == mbr.root.children[k]
         IN (NodeIsExtendedPartition(child) /\ child.children = <<>>)
              => \E i \in 1..(Len(mbr.rows) - 1) :
                   mbr.rows[i] = NodeTableRow(child) /\ mbr.rows[i + 1] = NodeTableRow(child)

SpecArray == InitArray /\ [][NextArray]_vars

\* The array a call returned.
ArrayRead == IF bs.op = "map" THEN bs.result.value.driver_descriptor_map ELSE bs.result.value

\* The entry stored at index i (from 1) of the array on the image.
EntryAt(i) ==
  LET b == Slice(disk, bs.from + DriverDescriptorEntrySize * (i - 1), DriverDescriptorEntrySize)
  IN [start_lba |-> BeNat(Slice(b, 0, 4)),
      size_in_sectors |-> BeNat(<<0, 0>> \o Slice(b, 4, 2)),
      sys_type |-> BeNat(<<0, 0>> \o Slice(b, 6, 2))]

\* C30: read_array::<T, S> decodes S consecutive elements, returns them in
\* stream order and advances the cursor by S times the size of T; the 8
\* entries of the Driver Descriptor Map consume 64 bytes.
C30_ReadArrayDecodesEach ==
  (bs.pc = "read" /\ bs.result.ok) =>
    /\ \A i \in 1..bs.size : ArrayRead[i] = EntryAt(i)
    /\ bs.result.stream.position = bs.from + bs.size * DriverDescriptorEntrySize

\* What the code does: one element is decoded, every element of the array
\* is that one, and the cursor advances by the size of one element, also
\* when the stream ends before the S-th element.
C30_ReadArrayRepeatsTheFirst ==
  bs.pc = "read" =>
    /\ bs.result.ok <=> Len(bs.buffer) >= bs.from + DriverDescriptorEntrySize
    /\ bs.result.ok =>
         /\ Len(ArrayRead) = bs.size
         /\ \A i \in 1..bs.size : ArrayRead[i] = EntryAt(1)
         /\ bs.result.stream.position = bs.from + DriverDescriptorEntrySize

====
